---------------------------- MODULE Spec2Model ----------------------------
(***************************************************************************)
(* A model of the storage client of godx: the upload heap of the repair    *)
(* engine (storage/storageclient/uploadheap.go) and the renewal part of    *)
(* the contract manager (storage/storageclient/contractmanager/            *)
(* contractrenew.go).  Each subsystem has its own specification over its   *)
(* own variables; the variables of the other subsystems stay at their      *)
(* initial values.                                                         *)
(***************************************************************************)
EXTENDS Integers, Sequences, FiniteSets, Bags, TLC

VARIABLES
    \* ---- uploadHeap (uploadheap.go:64-83) ----
    heap,               \* uploadHeap.heap: the array behind container/heap
    heapSegments,       \* uploadHeap.heapSegments: ids currently in the heap
    repairingSegments,  \* uploadHeap.repairingSegments: ids handed to workers
    nextSegment,        \* uploadLoop's local: the segment popped, not yet dispatched
    added,              \* the value returned by the most recent push
    pushOrder,          \* history: the segments in the heap, in the order pushed
    \* ---- checkForContractRenew on one active contract (contractrenew.go:37-85) ----
    chk,                \* the contract, its host and the manager's height and rent payment
    bucket,             \* the renew list the contract was appended to
    \* ---- ContractManager and its renewal (contractrenew.go:150-292) ----
    contracts,          \* activeContracts: the ids in the contract set
    status,             \* the Status of each contract's header
    otherHolds,         \* the contracts other threads have acquired
    expiredContracts,   \* cm.expiredContracts: id -> metadata (its status)
    renewedFrom,        \* cm.renewedFrom: successor -> predecessor
    renewedTo,          \* cm.renewedTo: predecessor -> successor
    renewing,           \* cm.renewing
    pc,                 \* where contractRenewStart stands
    rn,                 \* contractRenewStart's locals and its result
    fail,               \* a failed renewal: what handleRenewFailed reads
    failOut,            \* the status it leaves, and what the renewal reports
    prepIn,             \* prepareContractRenew's renewRecords and clientRemainingFund
    prep,               \* its loop: position, remainingFund, terminate
    payIn,              \* ClientPayoutsPreTax's arguments
    payOut,             \* what it returned, and the big integers afterwards
    draftIn,            \* the arguments of a draft: of draftStorageContract or ContractRenew
    draft,              \* the storage contract drafted: its two output tables
    neg,                \* a contract negotiation with a host: create or renew
    interactions,       \* the host's failed and successful interaction counters
    negCount,           \* the negotiations started
    dposIn,             \* a dpos request: its fields and the sender's account state
    dposOut,            \* the outcome of its parsing and validation
    sendCalls,          \* each caller's running dpos send operation
    nonceLock,          \* per address: the caller holding its nonce lock, or 0
    poolNonce,          \* per address: the nonce the transaction pool hands out next
    txPool,             \* the transactions the pool accepted, in order
    callCount,          \* send operations started so far
    storageHostTree,    \* per host id: its info in the pool, or NoHost
    filteredTree,       \* the ids in the filtered tree when it is a tree of its own
    filteredTreeShared, \* the filtered tree is the very tree of the pool
    filterMode,         \* DisableFilter, WhitelistFilter or BlacklistFilter
    filteredHosts,      \* the ids of the white or black list
    ipViolationCheck,   \* the ip violation check is enabled
    initialScanFinished,\* 0, and 1 once the initial scan is finished
    hostCall,           \* the last query of the host manager and its result
    wheelIn,            \* the entries, the seed and the target of a random selection
    wheel,              \* per run: the lucky wheel selecting from them
    loop,               \* the running uploadLoop call: its position and locals
    rebuildHeapSignal,  \* the rebuild-heap timer of the call has fired
    segIn,              \* a file segment: the host set, its sectors, the contracts
    segOut,             \* the unfinished segment createUnfinishedSegments builds of it
    buildIn,            \* a file, the target and the workers given to createUnfinishedSegments
    buildOut,           \* the segments it returned and the stuck flags it wrote
    passIn,             \* the files of a directory and what a stuck-repair pass reads
    pass,               \* the passes made, and the candidates and the pick of the last
    stopChan,           \* the thread manager's stop channel is closed
    repair,             \* the uploadAndRepairLoop goroutine: its position and locals
    failedRenewCount,   \* cm.failedRenewCount: contract id -> failed renewals
    tick,               \* a maintenance tick: its renew lists and the contracts' statuses
    parseIn,            \* the fields map given to ParsePrecompileContractTxArgs
    parseOut            \* per call: what the call returned

heapVars == <<heap, heapSegments, repairingSegments, nextSegment, added, pushOrder>>

checkVars == <<chk, bucket>>

renewVars == <<contracts, status, otherHolds, expiredContracts, renewedFrom,
               renewedTo, renewing, pc, rn>>

failVars == <<fail, failOut>>

prepVars == <<prepIn, prep>>

payVars == <<payIn, payOut>>

draftVars == <<draftIn, draft>>

negVars == <<neg, interactions, negCount>>

dposVars == <<dposIn, dposOut>>

sendVars == <<sendCalls, nonceLock, poolNonce, txPool, callCount>>

hostVars == <<storageHostTree, filteredTree, filteredTreeShared, filterMode, filteredHosts, ipViolationCheck, initialScanFinished, hostCall>>

wheelVars == <<wheelIn, wheel>>

loopVars == <<loop, rebuildHeapSignal>>

segVars == <<segIn, segOut>>

buildVars == <<buildIn, buildOut>>

passVars == <<passIn, pass>>

repairVars == <<stopChan, repair>>

tickVars == <<failedRenewCount, tick>>

parseVars == <<parseIn, parseOut>>

vars == <<heapVars, checkVars, renewVars, failVars, prepVars, payVars, draftVars, negVars, dposVars, sendVars, hostVars, wheelVars, loopVars, segVars, buildVars, passVars, repairVars, tickVars, parseVars>>

\* What the steps of one subsystem leave alone.
notHeap == <<checkVars, renewVars, failVars, prepVars, payVars, draftVars, negVars, dposVars, sendVars, hostVars, wheelVars, loopVars, segVars, buildVars, passVars, repairVars, tickVars, parseVars>>
notCheck == <<heapVars, renewVars, failVars, prepVars, payVars, draftVars, negVars, dposVars, sendVars, hostVars, wheelVars, loopVars, segVars, buildVars, passVars, repairVars, tickVars, parseVars>>
notRenew == <<heapVars, checkVars, failVars, prepVars, payVars, draftVars, negVars, dposVars, sendVars, hostVars, wheelVars, loopVars, segVars, buildVars, passVars, repairVars, tickVars, parseVars>>
notFail == <<heapVars, checkVars, renewVars, prepVars, payVars, draftVars, negVars, dposVars, sendVars, hostVars, wheelVars, loopVars, segVars, buildVars, passVars, repairVars, tickVars, parseVars>>
notPrep == <<heapVars, checkVars, renewVars, failVars, payVars, draftVars, negVars, dposVars, sendVars, hostVars, wheelVars, loopVars, segVars, buildVars, passVars, repairVars, tickVars, parseVars>>
notPay == <<heapVars, checkVars, renewVars, failVars, prepVars, draftVars, negVars, dposVars, sendVars, hostVars, wheelVars, loopVars, segVars, buildVars, passVars, repairVars, tickVars, parseVars>>
notDraft == <<heapVars, checkVars, renewVars, failVars, prepVars, payVars, negVars, dposVars, sendVars, hostVars, wheelVars, loopVars, segVars, buildVars, passVars, repairVars, tickVars, parseVars>>
notNeg == <<heapVars, checkVars, renewVars, failVars, prepVars, payVars, draftVars, dposVars, sendVars, hostVars, wheelVars, loopVars, segVars, buildVars, passVars, repairVars, tickVars, parseVars>>
notDpos == <<heapVars, checkVars, renewVars, failVars, prepVars, payVars, draftVars, negVars, sendVars, hostVars, wheelVars, loopVars, segVars, buildVars, passVars, repairVars, tickVars, parseVars>>
notSend == <<heapVars, checkVars, renewVars, failVars, prepVars, payVars, draftVars, negVars, dposVars, hostVars, wheelVars, loopVars, segVars, buildVars, passVars, repairVars, tickVars, parseVars>>
notHost == <<heapVars, checkVars, renewVars, failVars, prepVars, payVars, draftVars, negVars, dposVars, sendVars, wheelVars, loopVars, segVars, buildVars, passVars, repairVars, tickVars, parseVars>>
notWheel == <<heapVars, checkVars, renewVars, failVars, prepVars, payVars, draftVars, negVars, dposVars, sendVars, hostVars, loopVars, segVars, buildVars, passVars, repairVars, tickVars, parseVars>>
notLoop == <<heapVars, checkVars, renewVars, failVars, prepVars, payVars, draftVars, negVars, dposVars, sendVars, hostVars, wheelVars, segVars, buildVars, passVars, repairVars, tickVars, parseVars>>
notHeapLoop == <<checkVars, renewVars, failVars, prepVars, payVars, draftVars, negVars, dposVars, sendVars, hostVars, wheelVars, segVars, buildVars, passVars, repairVars, tickVars, parseVars>>
notSeg == <<heapVars, checkVars, renewVars, failVars, prepVars, payVars, draftVars, negVars, dposVars, sendVars, hostVars, wheelVars, loopVars, buildVars, passVars, repairVars, tickVars, parseVars>>
notBuild == <<heapVars, checkVars, renewVars, failVars, prepVars, payVars, draftVars, negVars, dposVars, sendVars, hostVars, wheelVars, loopVars, segVars, passVars, repairVars, tickVars, parseVars>>
notPass == <<heapVars, checkVars, renewVars, failVars, prepVars, payVars, draftVars, negVars, dposVars, sendVars, hostVars, wheelVars, loopVars, segVars, buildVars, repairVars, tickVars, parseVars>>
notHeapPass == <<checkVars, renewVars, failVars, prepVars, payVars, draftVars, negVars, dposVars, sendVars, hostVars, wheelVars, loopVars, segVars, buildVars, repairVars, tickVars, parseVars>>
notRepair == <<heapVars, checkVars, renewVars, failVars, prepVars, payVars, draftVars, negVars, dposVars, sendVars, hostVars, wheelVars, loopVars, segVars, buildVars, passVars, tickVars, parseVars>>
notTick == <<heapVars, checkVars, renewVars, failVars, prepVars, payVars, draftVars, negVars, dposVars, sendVars, hostVars, wheelVars, loopVars, segVars, buildVars, passVars, repairVars, parseVars>>
notParse == <<heapVars, checkVars, renewVars, failVars, prepVars, payVars, draftVars, negVars, dposVars, sendVars, hostVars, wheelVars, loopVars, segVars, buildVars, passVars, repairVars, tickVars>>

-----------------------------------------------------------------------------
(***************************************************************************)
(* Bounds of the model.                                                    *)
(***************************************************************************)
NumSegmentIDs == 3      \* segment ids are 1..NumSegmentIDs
MaxHeapLen == 3         \* pushes are not offered beyond this heap length
NumContracts == 3       \* contract ids are 1..NumContracts
MaxRecords == 3         \* renew records handed to prepareContractRenew
MaxCost == 3            \* the estimated cost of a renewal is 1..MaxCost
MaxFund == 5            \* clientRemainingFund is 0..MaxFund
MaxNegotiations == 2    \* negotiations with the host, one after the other

-----------------------------------------------------------------------------
(***************************************************************************)
(* unfinishedUploadSegment: the fields the heap reads.                     *)
(***************************************************************************)
SegmentIDs == 1..NumSegmentIDs

\* <<sectorsCompletedNum, sectorsNeedNum>>; sectorsNeedNum is the erasure
\* code's NumSectors, which is positive, and 0 <= completed <= need.  The
\* unstuck segments take three completions, two of them ordered one way by
\* their ratios and the other way by their completed sectors; the stuck
\* ones the least and the greatest ratio.
Completions(stuck) ==
    IF stuck THEN {<<1, 10>>, <<9, 10>>} ELSE {<<1, 10>>, <<3, 10>>, <<1, 2>>}

Segments ==
    { seg \in [ id : SegmentIDs, stuck : BOOLEAN, sectorsCompletedNum : {1, 3, 9},
                sectorsNeedNum : {2, 10} ] :
        <<seg.sectorsCompletedNum, seg.sectorsNeedNum>> \in Completions(seg.stuck) }

NoSegment == [id |-> 0]

Range(s) == { s[i] : i \in DOMAIN s }

\* The multiset of the elements of a sequence.
BagOfSeq(s) == [ x \in Range(s) |-> Cardinality({ i \in DOMAIN s : s[i] = x }) ]

-----------------------------------------------------------------------------
(***************************************************************************)
(* uploadSegmentHeap: heap.Interface and the container/heap algorithms.    *)
(* Go indexes from 0; element i of the Go slice is h[i + 1] here.          *)
(***************************************************************************)

\* float64(a.completed)/float64(a.need) < float64(b.completed)/float64(b.need).
\* Both denominators are positive and the operands are small integers, for
\* which the float64 quotients order exactly as the rationals do.
CompletionLess(a, b) ==
    a.sectorsCompletedNum * b.sectorsNeedNum < b.sectorsCompletedNum * a.sectorsNeedNum

LessUnstuckFirst(a, b) ==
    IF a.stuck = b.stuck THEN CompletionLess(a, b) ELSE b.stuck

LessByCompletedOnly(a, b) ==
    IF a.stuck = b.stuck THEN a.sectorsCompletedNum < b.sectorsCompletedNum ELSE a.stuck

\* uploadSegmentHeap.Less on two elements.
Less(a, b) ==
    IF a.stuck = b.stuck THEN CompletionLess(a, b) ELSE a.stuck

\* uploadSegmentHeap.Swap
Swap(h, i, j) ==
    [h EXCEPT ![i + 1] = h[j + 1], ![j + 1] = h[i + 1]]

\* Go's integer division truncates toward zero: (0 - 1) / 2 = 0.
Parent(j) == IF j = 0 THEN 0 ELSE (j - 1) \div 2

\* container/heap.up
RECURSIVE up(_, _)
up(h, j) ==
    LET i == Parent(j) IN
    IF i = j \/ ~Less(h[j + 1], h[i + 1])
    THEN h
    ELSE up(Swap(h, i, j), i)

\* container/heap.down
RECURSIVE down(_, _, _)
down(h, i, n) ==
    LET j1 == 2 * i + 1 IN
    IF j1 >= n
    THEN h
    ELSE LET j2 == j1 + 1
             j  == IF j2 < n /\ Less(h[j2 + 1], h[j1 + 1]) THEN j2 ELSE j1
         IN  IF ~Less(h[j + 1], h[i + 1])
             THEN h
             ELSE down(Swap(h, i, j), j, n)

\* heap.Push(&uh.heap, uuc): append, then up from the last index.
HeapPush(h, x) == up(Append(h, x), Len(h))

\* heap.Pop(&uh.heap): swap the root to the end, down from the root over the
\* first n elements, then uploadSegmentHeap.Pop cuts the last element off.
HeapPopArray(h) ==
    LET n == Len(h) - 1 IN down(Swap(h, 0, n), 0, n)

HeapPopResult(h) == HeapPopArray(h)[Len(h)]

HeapPopRest(h) == SubSeq(HeapPopArray(h), 1, Len(h) - 1)

\* The order in which repeated heap.Pop empties h.
RECURSIVE DrainOrder(_)
DrainOrder(h) ==
    IF h = <<>> THEN <<>> ELSE <<HeapPopResult(h)>> \o DrainOrder(HeapPopRest(h))

-----------------------------------------------------------------------------
(***************************************************************************)
(* uploadHeap.push, uploadHeap.pop and the steps of uploadLoop around them.*)
(***************************************************************************)

\* The first index of x in s (0 when absent), and s without that element.
RECURSIVE IndexOf(_, _)
IndexOf(s, x) ==
    IF s = <<>> THEN 0
    ELSE IF Head(s) = x THEN 1
    ELSE LET k == IndexOf(Tail(s), x) IN IF k = 0 THEN 0 ELSE k + 1

RemoveAt(s, k) == SubSeq(s, 1, k - 1) \o SubSeq(s, k + 1, Len(s))

PushAdmitsIgnoringRepair(uuc) == uuc.id \notin heapSegments

PushAdmitsIgnoringHeap(uuc) == uuc.id \notin repairingSegments

\* push's test `!exists1 && !exists2`.
PushAdmits(uuc) ==
    uuc.id \notin heapSegments /\ uuc.id \notin repairingSegments

\* uploadHeap.push(uuc), under uh.mu.
push(uuc) ==
    /\ Len(heap) < MaxHeapLen
    /\ IF PushAdmits(uuc)
       THEN /\ heapSegments' = heapSegments \cup {uuc.id}
            /\ heap' = HeapPush(heap, uuc)
            /\ pushOrder' = Append(pushOrder, uuc)
            /\ added' = TRUE
       ELSE /\ UNCHANGED <<heapSegments, heap, pushOrder>>
            /\ added' = FALSE
    /\ UNCHANGED <<repairingSegments, nextSegment>>
    /\ UNCHANGED notHeap

\* uploadLoop: nextSegment := uploadHeap.pop(), under uh.mu.  On an empty
\* heap pop returns nil and uploadLoop returns, which changes nothing.
pop ==
    /\ nextSegment = NoSegment
    /\ heap # <<>>
    /\ nextSegment' = HeapPopResult(heap)
    /\ heap' = HeapPopRest(heap)
    /\ heapSegments' = heapSegments \ {HeapPopResult(heap).id}
    /\ pushOrder' = RemoveAt(pushOrder, IndexOf(pushOrder, HeapPopResult(heap)))
    /\ UNCHANGED <<repairingSegments, added>>
    /\ UNCHANGED notHeap

\* uploadLoop: too few workers, or no memory: setStuckAndClose(nextSegment,
\* true) and continue with the next iteration; the segment is dropped.
setStuckAndClose ==
    /\ nextSegment # NoSegment
    /\ nextSegment' = NoSegment
    /\ UNCHANGED <<heap, heapSegments, repairingSegments, added, pushOrder>>
    /\ UNCHANGED notHeap

\* uploadLoop: memory granted, `go sc.uploadSegment(uuc)`: the segment moves
\* from heapSegments to repairingSegments.
dispatch ==
    /\ nextSegment # NoSegment
    /\ heapSegments' = heapSegments \ {nextSegment.id}
    /\ repairingSegments' = repairingSegments \cup {nextSegment.id}
    /\ nextSegment' = NoSegment
    /\ UNCHANGED <<heap, added, pushOrder>>
    /\ UNCHANGED notHeap

\* A worker finishes or gives up the repair of a segment.
repairDone(id) ==
    /\ id \in repairingSegments
    /\ repairingSegments' = repairingSegments \ {id}
    /\ UNCHANGED <<heap, heapSegments, nextSegment, added, pushOrder>>
    /\ UNCHANGED notHeap

HeapNext ==
    \/ \E uuc \in Segments : push(uuc)
    \/ pop
    \/ setStuckAndClose
    \/ dispatch
    \/ \E id \in SegmentIDs : repairDone(id)

-----------------------------------------------------------------------------
(***************************************************************************)
(* uint64 arithmetic.  A uint64 is four 16-bit limbs, least significant    *)
(* first, so that sums wrap at 2^64 exactly as Go's do.                    *)
(***************************************************************************)
LimbBase == 2 ^ 16

U64(n) == <<n % LimbBase, (n \div LimbBase) % LimbBase, 0, 0>>

MaxUint64 == <<LimbBase - 1, LimbBase - 1, LimbBase - 1, LimbBase - 1>>

\* The limb sums of a + b with the carries passed upwards.
LimbSums(a, b) ==
    LET s1 == a[1] + b[1]
        s2 == a[2] + b[2] + (s1 \div LimbBase)
        s3 == a[3] + b[3] + (s2 \div LimbBase)
        s4 == a[4] + b[4] + (s3 \div LimbBase)
    IN  <<s1, s2, s3, s4>>

\* a + b on uint64: the carry out of the top limb is dropped.
Add64(a, b) ==
    LET s == LimbSums(a, b)
    IN  <<s[1] % LimbBase, s[2] % LimbBase, s[3] % LimbBase, s[4] % LimbBase>>

\* 1 when the mathematical sum a + b is 2^64 or more.
Carry64(a, b) == LimbSums(a, b)[4] \div LimbBase

\* a >= b on uint64.
Geq64(a, b) ==
    \/ a[4] > b[4]
    \/ a[4] = b[4] /\ a[3] > b[3]
    \/ a[4] = b[4] /\ a[3] = b[3] /\ a[2] > b[2]
    \/ a[4] = b[4] /\ a[3] = b[3] /\ a[2] = b[2] /\ a[1] >= b[1]

-----------------------------------------------------------------------------
(***************************************************************************)
(* checkForContractRenew: the body of its loop, for one active contract.   *)
(***************************************************************************)

\* minContractPaymentRenewalThreshold = ThresholdNum / ThresholdDen.
ThresholdNum == 5
ThresholdDen == 100

\* The manager's block height, the rent payment's renew window and the
\* contract's end height: small values, the values of the specification's
\* renewal scenario, and values near the top of the uint64 range.
BlockHeights == {U64(0), U64(1), U64(898), U64(899), U64(900), U64(1000), U64(5000)}
RenewWindows == {U64(1), U64(100), U64(2880), MaxUint64}
EndHeights   == {U64(1), U64(999), U64(1000), U64(1001), U64(6000), MaxUint64}

\* ClientBalance, TotalCost (positive: Div panics on zero) and the cost of
\* one sector that lines 69-72 compute from the host's prices.
Balances == {0, 299, 300, 600, 10000}
TotalCosts == {600, 10000}
SectorCosts == {0, 100}

CheckInputs ==
    [ exists : BOOLEAN, Filtered : BOOLEAN, RenewAbility : BOOLEAN,
      blockHeight : BlockHeights, RenewWindow : RenewWindows, EndHeight : EndHeights,
      ClientBalance : Balances, TotalCost : TotalCosts, totalSectorCost : SectorCosts ]

CloseToExpireOneEarly(c) ==
    Geq64(Add64(Add64(c.blockHeight, c.RenewWindow), U64(1)), c.EndHeight)

\* currentBlockHeight+rentPayment.RenewWindow >= contract.EndHeight, on uint64.
CloseToExpire(c) ==
    Geq64(Add64(c.blockHeight, c.RenewWindow), c.EndHeight)

\* contract.ClientBalance.Div(contract.TotalCost).Float64(): the integer
\* quotient of the two big integers, converted to a float.
RemainingBalancePercentage(c) == c.ClientBalance \div c.TotalCost

\* ClientBalance < 3 * totalSectorCost, or the percentage below the threshold.
InsufficientFunding(c) ==
    \/ c.ClientBalance < c.totalSectorCost * 3
    \/ RemainingBalancePercentage(c) * ThresholdDen < ThresholdNum

\* The list the loop appends the contract to, and the cost it records.  The
\* cost of a close-to-expire renewal is renewCostEstimation's, left open here.
Classify(c) ==
    IF ~c.exists \/ c.Filtered THEN [list |-> "skipped", cost |-> 0]
    ELSE IF ~c.RenewAbility THEN [list |-> "skipped", cost |-> 0]
    ELSE IF CloseToExpire(c) THEN [list |-> "closeToExpire", cost |-> 0]
    ELSE IF InsufficientFunding(c)
         THEN [list |-> "insufficientFunding", cost |-> c.TotalCost * 2]
         ELSE [list |-> "none", cost |-> 0]

Unchecked == [list |-> "unchecked", cost |-> 0]

checkForContractRenew ==
    /\ bucket = Unchecked
    /\ bucket' = Classify(chk)
    /\ UNCHANGED chk
    /\ UNCHANGED notCheck

CheckNext == checkForContractRenew

-----------------------------------------------------------------------------
(***************************************************************************)
(* ContractManager.contractRenewStart, one step per call it makes or lock  *)
(* it takes, so that other threads see its intermediate states.            *)
(***************************************************************************)
ContractIDs == 1..NumContracts

\* storage.ContractID{}: the id of a zero-value ContractMetaData.  Ids are
\* hashes of the contracts, so no contract of the set has it.
ZeroID == 0

StatusGood == [UploadAbility |-> TRUE, RenewAbility |-> TRUE, Canceled |-> FALSE]
StatusNoUpload == [UploadAbility |-> FALSE, RenewAbility |-> TRUE, Canceled |-> FALSE]
StatusCanceled == [UploadAbility |-> FALSE, RenewAbility |-> FALSE, Canceled |-> TRUE]

Statuses == {StatusGood, StatusNoUpload, StatusCanceled}

\* m[k] = v on a Go map.
MapPut(m, k, v) == [ x \in DOMAIN m \cup {k} |-> IF x = k THEN v ELSE m[x] ]

EmptyMap == [ x \in {} |-> 0 ]

\* The locals of contractRenewStart before it starts.
\*   id: record.id;  stats: the status read at step 1;  renewedContract: the
\*   id renew returned;  acquired: Acquire found the contract;  held: the
\*   renewal holds the contract's lock;  released: how often it released it;
\*   usedAfterReturn: it updated or deleted the contract after returning it;
\*   negotiated: renew returned no error;  err: the error it returns;
\*   renewCost: the cost it returns, once set.
NoRenewal ==
    [ id |-> ZeroID, stats |-> StatusGood, renewedContract |-> ZeroID,
      acquired |-> FALSE, held |-> FALSE, released |-> 0,
      usedAfterReturn |-> FALSE, negotiated |-> FALSE, err |-> FALSE,
      renewCost |-> "unset" ]

ZeroCostAfterRenewal(r) == [r EXCEPT !.renewCost = "BigInt0", !.err = FALSE]

\* renewCost = renewContractCost; err = nil (lines 216-217, 230-231, 253-254).
ReturnRenewCost(r) == [r EXCEPT !.renewCost = "record.cost", !.err = FALSE]

\* renewCost = common.BigInt0 with an error (lines 176-177, 187-188, 200-201;
\* handleRenewFailed always returns one).
ReturnZeroCost(r) == [r EXCEPT !.renewCost = "BigInt0", !.err = TRUE]

\* ContractManager.renew: `return` of the zero values of both results.
renew == [ID |-> ZeroID, err |-> FALSE]

\* activeContracts.Return(contract) by the renewal: an error when the contract
\* is no longer in the set, else the lock is released.
ReturnFails == rn.id \notin contracts

AfterReturn(r) ==
    IF ReturnFails THEN r
    ELSE [r EXCEPT !.held = FALSE,
                   !.released = IF r.released < 2 THEN r.released + 1 ELSE 2]

\* prepareContractRenew calls contractRenewStart(record, ...): lines 157-163.
renewStart(id) ==
    /\ pc = "idle"
    /\ rn' = [NoRenewal EXCEPT !.id = id]
    /\ renewing' = renewing \cup {id}
    /\ pc' = "acquire"
    /\ UNCHANGED <<contracts, status, otherHolds, expiredContracts, renewedFrom, renewedTo>>
    /\ UNCHANGED notRenew

\* Lines 173-179: Acquire blocks while another thread holds the contract.
acquire ==
    /\ pc = "acquire"
    /\ IF rn.id \notin contracts
       THEN /\ rn' = ReturnZeroCost(rn)
            /\ pc' = "return"
       ELSE /\ rn.id \notin otherHolds
            /\ rn' = [rn EXCEPT !.acquired = TRUE, !.held = TRUE]
            /\ pc' = "status"
    /\ UNCHANGED <<contracts, status, otherHolds, expiredContracts, renewedFrom,
                   renewedTo, renewing>>
    /\ UNCHANGED notRenew

\* Lines 181-190: retrieveContractStatus and the RenewAbility test.
checkStatus ==
    /\ pc = "status"
    /\ IF rn.id \notin contracts \/ ~status[rn.id].RenewAbility
       THEN /\ rn' = ReturnZeroCost([AfterReturn(rn) EXCEPT !.stats = status[rn.id]])
            /\ pc' = "return"
       ELSE /\ rn' = [rn EXCEPT !.stats = status[rn.id]]
            /\ pc' = "renew"
    /\ UNCHANGED <<contracts, status, otherHolds, expiredContracts, renewedFrom,
                   renewedTo, renewing>>
    /\ UNCHANGED notRenew

\* Lines 192-203: renew, and on an error Return and handleRenewFailed.
renewContract ==
    /\ pc = "renew"
    /\ IF renew.err
       THEN /\ rn' = ReturnZeroCost(AfterReturn(rn))
            /\ pc' = "return"
       ELSE /\ rn' = [rn EXCEPT !.renewedContract = renew.ID, !.negotiated = TRUE]
            /\ pc' = "updateNew"
    /\ UNCHANGED <<contracts, status, otherHolds, expiredContracts, renewedFrom,
                   renewedTo, renewing>>
    /\ UNCHANGED notRenew

\* cm.updateContractStatus(id, s): the status of a contract of the set is set;
\* an error when the set has no such contract.
UpdateContractStatusFails(id) == id \notin contracts

\* Lines 205-220: the successor's status.  When the update fails the contract
\* is returned, and only a failing Return ends the renewal.
updateNew ==
    /\ pc = "updateNew"
    /\ IF UpdateContractStatusFails(rn.renewedContract)
       THEN /\ rn' = IF ReturnFails THEN ReturnRenewCost(AfterReturn(rn))
                                     ELSE AfterReturn(rn)
            /\ pc' = IF ReturnFails THEN "return" ELSE "updateOld"
            /\ UNCHANGED status
       ELSE /\ status' = [status EXCEPT ![rn.renewedContract] = StatusGood]
            /\ pc' = "updateOld"
            /\ UNCHANGED rn
    /\ UNCHANGED <<contracts, otherHolds, expiredContracts, renewedFrom, renewedTo, renewing>>
    /\ UNCHANGED notRenew

\* Lines 222-234: the predecessor's status.  contract.UpdateStatus writes the
\* header to disk and may fail; then the contract is returned, and only a
\* failing Return ends the renewal.
updateOld ==
    /\ pc = "updateOld"
    /\ \E ok \in BOOLEAN :
          IF ok
          THEN /\ status' = [status EXCEPT ![rn.id] = StatusCanceled]
               /\ rn' = [rn EXCEPT !.stats = StatusCanceled,
                                   !.usedAfterReturn = rn.usedAfterReturn \/ ~rn.held]
               /\ pc' = "record"
          ELSE /\ rn' = IF ReturnFails
                          THEN ReturnRenewCost([AfterReturn(rn) EXCEPT !.stats = StatusCanceled])
                          ELSE [AfterReturn(rn) EXCEPT !.stats = StatusCanceled]
               /\ pc' = IF ReturnFails THEN "return" ELSE "record"
               /\ UNCHANGED status
    /\ UNCHANGED <<contracts, otherHolds, expiredContracts, renewedFrom, renewedTo, renewing>>
    /\ UNCHANGED notRenew

\* Lines 236-241, under cm.lock.
recordRenewal ==
    /\ pc = "record"
    /\ renewedFrom' = MapPut(renewedFrom, rn.renewedContract, rn.id)
    /\ renewedTo' = MapPut(renewedTo, rn.id, rn.renewedContract)
    /\ expiredContracts' = MapPut(expiredContracts, rn.id, status[rn.id])
    /\ pc' = "save"
    /\ UNCHANGED <<contracts, status, otherHolds, renewing, rn>>
    /\ UNCHANGED notRenew

\* Lines 243-246: the settings are written to disk; a failure is logged.
saveSettings ==
    /\ pc = "save"
    /\ pc' = "delete"
    /\ UNCHANGED <<contracts, status, otherHolds, expiredContracts, renewedFrom,
                   renewedTo, renewing, rn>>
    /\ UNCHANGED notRenew

\* Lines 248-255: activeContracts.Delete(contract) takes the contract out of
\* the set and ends the hold on it; an error, logged, when it is not there.
deleteContract ==
    /\ pc = "delete"
    /\ IF rn.id \in contracts
       THEN /\ contracts' = contracts \ {rn.id}
            /\ rn' = ReturnRenewCost(
                       IF rn.held
                       THEN [rn EXCEPT !.held = FALSE,
                                       !.released = IF rn.released < 2 THEN rn.released + 1 ELSE 2]
                       ELSE [rn EXCEPT !.usedAfterReturn = TRUE])
       ELSE /\ rn' = ReturnRenewCost(rn)
            /\ UNCHANGED contracts
    /\ pc' = "return"
    /\ UNCHANGED <<status, otherHolds, expiredContracts, renewedFrom, renewedTo, renewing>>
    /\ UNCHANGED notRenew

\* Lines 165-169: the deferred delete(cm.renewing, id), then the return.
renewReturn ==
    /\ pc = "return"
    /\ renewing' = renewing \ {rn.id}
    /\ pc' = "done"
    /\ UNCHANGED <<contracts, status, otherHolds, expiredContracts, renewedFrom,
                   renewedTo, rn>>
    /\ UNCHANGED notRenew

\* prepareContractRenew goes on to its next record.
nextRecord ==
    /\ pc = "done"
    /\ pc' = "idle"
    /\ rn' = NoRenewal
    /\ UNCHANGED <<contracts, status, otherHolds, expiredContracts, renewedFrom,
                   renewedTo, renewing>>
    /\ UNCHANGED notRenew

\* Another thread acquires a contract of the set, and returns it.
otherAcquire(id) ==
    /\ id \in contracts
    /\ id \notin otherHolds
    /\ ~(rn.held /\ rn.id = id)
    /\ otherHolds' = otherHolds \cup {id}
    /\ UNCHANGED <<contracts, status, expiredContracts, renewedFrom, renewedTo,
                   renewing, pc, rn>>
    /\ UNCHANGED notRenew

otherReturn(id) ==
    /\ id \in otherHolds
    /\ otherHolds' = otherHolds \ {id}
    /\ UNCHANGED <<contracts, status, expiredContracts, renewedFrom, renewedTo,
                   renewing, pc, rn>>
    /\ UNCHANGED notRenew

RenewNext ==
    \/ \E id \in ContractIDs : renewStart(id)
    \/ acquire
    \/ checkStatus
    \/ renewContract
    \/ updateNew
    \/ updateOld
    \/ recordRenewal
    \/ saveSettings
    \/ deleteContract
    \/ renewReturn
    \/ nextRecord
    \/ \E id \in ContractIDs : otherAcquire(id)
    \/ \E id \in ContractIDs : otherReturn(id)

-----------------------------------------------------------------------------
(***************************************************************************)
(* handleRenewFailed, and the branch of contractRenewStart that calls it.  *)
(***************************************************************************)

\* The number of failed renewals after which a contract is replaced.
consecutiveRenewFailsBeforeReplacement == 10

\* cm.failedRenewCount[id]: absent (0), below, at and above the number.
FailCounts == {0, 9, 10, 11}

\* a / 2 on uint64.
Half64(a) ==
    <<(a[1] \div 2) + (a[2] % 2) * (LimbBase \div 2),
      (a[2] \div 2) + (a[3] % 2) * (LimbBase \div 2),
      (a[3] \div 2) + (a[4] % 2) * (LimbBase \div 2),
      a[4] \div 2>>

\* What handleRenewFailed reads: the height, the rent payment's window, the
\* failed contract's end height and failure count, the status read at step 1
\* of the renewal (renewable, or the renewal had ended there), and whether
\* the contract's UpdateStatus succeeds.
FailInputs ==
    [ blockHeight : BlockHeights, RenewWindow : RenewWindows, EndHeight : EndHeights,
      numFailed : FailCounts, stats : {StatusGood, StatusNoUpload},
      updateOK : BOOLEAN ]

\* blockHeight+rentPayment.RenewWindow/2 >= EndHeight, on uint64.
SecondHalfRenewWindow(f) ==
    Geq64(Add64(f.blockHeight, Half64(f.RenewWindow)), f.EndHeight)

ContractReplaceAboveOnly(f) == f.numFailed > consecutiveRenewFailsBeforeReplacement

\* numFailed >= consecutiveRenewFailsBeforeReplacement
ContractReplace(f) == f.numFailed >= consecutiveRenewFailsBeforeReplacement

\* handleRenewFailed: the contract's status afterwards, and whether the
\* error it returns says the contract was canceled.  It always returns one.
handleRenewFailed(f) ==
    IF SecondHalfRenewWindow(f) /\ ContractReplace(f)
    THEN [ status |-> IF f.updateOK THEN StatusCanceled ELSE f.stats,
           err |-> TRUE, saysCanceled |-> TRUE ]
    ELSE [ status |-> f.stats, err |-> TRUE, saysCanceled |-> FALSE ]

NotFailed == [ status |-> StatusGood, err |-> FALSE, saysCanceled |-> FALSE,
               renewCost |-> 0, handled |-> FALSE ]

\* Lines 196-203: renewCost = common.BigInt0, err = cm.handleRenewFailed(...).
renewFailed ==
    /\ ~failOut.handled
    /\ LET h == handleRenewFailed(fail)
       IN  failOut' = [ status |-> h.status, err |-> h.err,
                        saysCanceled |-> h.saysCanceled,
                        renewCost |-> 0, handled |-> TRUE ]
    /\ UNCHANGED fail
    /\ UNCHANGED notFail

FailNext == renewFailed

-----------------------------------------------------------------------------
(***************************************************************************)
(* prepareContractRenew: its loop over the renew records.                  *)
(***************************************************************************)

\* record.cost of the records, in order.
RecordLists == UNION { [1..n -> 1..MaxCost] : n \in 0..MaxRecords }

PrepareInputs == [ renewRecords : RecordLists, clientRemainingFund : 0..MaxFund ]

\* The loop before its first record.  remainingFund and terminate are the
\* named results, zero and false until assigned.  performed and overBudget
\* are not the code's: the sum of the costs of the renewals performed, and
\* whether a renewal was started whose cost exceeded what was left of the
\* fund after the renewals performed before it.
PrepareStart ==
    [ i |-> 1, remainingFund |-> 0, terminate |-> FALSE, returned |-> FALSE,
      performed |-> 0, overBudget |-> FALSE ]

\* clientRemainingFund.Cmp(record.cost) < 0
FundTooLow(cost) == prepIn.clientRemainingFund < cost

\* remainingFund = clientRemainingFund.Sub(renewCost)
RemainingAfter(renewCost) == prepIn.clientRemainingFund - renewCost

\* Lines 126-130: a record whose cost is above clientRemainingFund is passed.
skipRecord ==
    /\ ~prep.returned
    /\ prep.i <= Len(prepIn.renewRecords)
    /\ FundTooLow(prepIn.renewRecords[prep.i])
    /\ prep' = [prep EXCEPT !.i = prep.i + 1]
    /\ UNCHANGED prepIn
    /\ UNCHANGED notPrep

\* Lines 132-145: contractRenewStart returns the record's cost when it has
\* renewed the contract and zero with an error when it has not; then the
\* remaining fund is set and the maintenance may be told to stop.
renewRecord ==
    /\ ~prep.returned
    /\ prep.i <= Len(prepIn.renewRecords)
    /\ ~FundTooLow(prepIn.renewRecords[prep.i])
    /\ \E renewed \in BOOLEAN, stop \in BOOLEAN :
          LET cost == prepIn.renewRecords[prep.i]
              renewCost == IF renewed THEN cost ELSE 0
          IN  prep' = [prep EXCEPT
                         !.i = prep.i + 1,
                         !.remainingFund = RemainingAfter(renewCost),
                         !.terminate = stop,
                         !.returned = stop,
                         !.performed = prep.performed + renewCost,
                         !.overBudget = prep.overBudget
                             \/ cost > prepIn.clientRemainingFund - prep.performed]
    /\ UNCHANGED prepIn
    /\ UNCHANGED notPrep

\* Line 147: the return after the last record.
prepareReturn ==
    /\ ~prep.returned
    /\ prep.i > Len(prepIn.renewRecords)
    /\ prep' = [prep EXCEPT !.returned = TRUE]
    /\ UNCHANGED prepIn
    /\ UNCHANGED notPrep

PrepareNext ==
    \/ skipRecord
    \/ renewRecord
    \/ prepareReturn

-----------------------------------------------------------------------------
(***************************************************************************)
(* ClientPayoutsPreTax.  Its numbers are *big.Int: an operation writes its *)
(* result into its receiver and returns the receiver, so a result may be   *)
(* the same integer as an operand or as a field of the host entry.  The    *)
(* integers are cells of a store and the pointers are cell names.          *)
(***************************************************************************)

\* funding, basePrice, baseCollateral, period, expectedStorage and the fields
\* of the host entry that the function reads.
PayInputs ==
    [ funding : {0, 1, 5, 10}, basePrice : {0, 2, 6}, baseCollateral : {0, 1},
      period : {1, 2}, expectedStorage : {1, 2},
      StoragePrice : {0, 1, 2}, ContractPrice : {0, 1, 5},
      Collateral : {0, 1, 3}, MaxCollateral : {0, 2, 100} ]

\* The arguments the variables of ClientPayoutsPreTax hold in the other
\* specifications.
IdlePayInput ==
    [ funding |-> 0, basePrice |-> 0, baseCollateral |-> 0, period |-> 1,
      expectedStorage |-> 1, StoragePrice |-> 0, ContractPrice |-> 0,
      Collateral |-> 0, MaxCollateral |-> 0 ]

\* The integers behind host.StoragePrice, host.ContractPrice, host.Collateral
\* and host.MaxCollateral, and the two the function allocates with new.
StoreAtEntry(in) ==
    [ StoragePrice |-> in.StoragePrice, ContractPrice |-> in.ContractPrice,
      Collateral |-> in.Collateral, MaxCollateral |-> in.MaxCollateral,
      clientPayout |-> 0, maxStorageSizeTime |-> 0 ]

NotCalled ==
    [ called |-> FALSE, err |-> FALSE, clientPayout |-> "nil",
      hostPayout |-> "nil", hostCollateral |-> "nil",
      store |-> [ StoragePrice |-> 0, ContractPrice |-> 0, Collateral |-> 0,
                  MaxCollateral |-> 0, clientPayout |-> 0,
                  maxStorageSizeTime |-> 0 ] ]

\* The value behind a returned pointer.
Deref(out, p) == out.store[p]

\* The function, statement by statement.
ClientPayoutsPreTax(in) ==
    LET s0 == StoreAtEntry(in)
        \* lines 503-505
        s1 == IF s0.StoragePrice = 0 THEN [s0 EXCEPT !.StoragePrice = 1] ELSE s0
    IN  IF in.funding <= s1.ContractPrice
        THEN \* lines 508-511
             [ called |-> TRUE, err |-> TRUE, clientPayout |-> "nil",
               hostPayout |-> "nil", hostCollateral |-> "nil", store |-> s1 ]
        ELSE
        LET \* lines 514-515
            s2 == [s1 EXCEPT !.clientPayout = in.funding - s1.ContractPrice - in.basePrice]
            \* lines 518-520: hostCollateral is maxStorageSizeTime
            s3 == [s2 EXCEPT !.maxStorageSizeTime =
                       (s2.clientPayout \div s2.StoragePrice) * s2.Collateral
                           + in.baseCollateral]
            \* lines 521-523: maxClientCollateral is host.Collateral
            s4 == [s3 EXCEPT !.Collateral =
                       s3.Collateral * in.period * in.expectedStorage * 5]
            \* lines 524-526
            hc1 == IF s4.maxStorageSizeTime > s4.Collateral
                   THEN "Collateral" ELSE "maxStorageSizeTime"
            \* lines 530-532
            hc2 == IF s4[hc1] > s4.MaxCollateral THEN "MaxCollateral" ELSE hc1
            \* line 535: hostCollateral.Add(hostCollateral, host.ContractPrice)
            s5 == [s4 EXCEPT ![hc2] = s4[hc2] + s4.ContractPrice]
            \* line 536: hostPayout = hostCollateral.Add(hostCollateral, basePrice)
            s6 == [s5 EXCEPT ![hc2] = s5[hc2] + in.basePrice]
        IN  [ called |-> TRUE, err |-> FALSE, clientPayout |-> "clientPayout",
              hostPayout |-> hc2, hostCollateral |-> hc2, store |-> s6 ]

clientPayoutsPreTax ==
    /\ ~payOut.called
    /\ payOut' = ClientPayoutsPreTax(payIn)
    /\ UNCHANGED payIn
    /\ UNCHANGED notPay

PayNext == clientPayoutsPreTax

-----------------------------------------------------------------------------
(***************************************************************************)
(* The storage contract drafted by draftStorageContract (create) and by    *)
(* ContractRenew (renew): ValidProofOutputs and MissedProofOutputs, each   *)
(* <<the client's value, the host's value>>.                               *)
(***************************************************************************)

\* create: what calculatePayoutsAndHostDeposit returns, the payouts or an error.
CreatePayouts == {0, 3, 8}

\* create, with the results of calculatePayoutsAndHostDeposit; or renew, with
\* the arguments of ClientPayoutsPreTax (basePrice and baseCollateral as lines
\* 305-310 compute them) and with whether the new window ends after the old
\* one (line 304).  The fields of the other kind are fixed.
DraftInputs ==
    [ kind : {"create"}, extended : {FALSE}, args : {IdlePayInput},
      clientPayout : CreatePayouts, hostPayout : CreatePayouts, calcErr : BOOLEAN ]
    \cup
    [ kind : {"renew"}, extended : BOOLEAN, args : PayInputs,
      clientPayout : {0}, hostPayout : {0}, calcErr : {FALSE} ]

NoDraft == [ done |-> FALSE, drafted |-> FALSE, err |-> FALSE, panic |-> FALSE,
             ValidProofOutputs |-> <<0, 0>>, MissedProofOutputs |-> <<0, 0>>,
             baseCollateral |-> 0 ]

\* draftStorageContract, part_000:87-120: baseDeposit and basePrice are zero.
draftStorageContract ==
    /\ ~draft.done
    /\ draftIn.kind = "create"
    /\ draft' =
          IF draftIn.calcErr
          THEN [NoDraft EXCEPT !.done = TRUE, !.err = TRUE]
          ELSE [NoDraft EXCEPT
                  !.done = TRUE, !.drafted = TRUE,
                  !.ValidProofOutputs = <<draftIn.clientPayout, draftIn.hostPayout>>,
                  !.MissedProofOutputs = <<draftIn.clientPayout, draftIn.hostPayout>>]
    /\ UNCHANGED draftIn
    /\ UNCHANGED notDraft

\* ContractRenew, lines 294-352.  Without an extension of the window basePrice
\* and baseCollateral stay nil, and ClientPayoutsPreTax, once past its funding
\* test, dereferences basePrice at line 515.
contractRenewDraft ==
    /\ ~draft.done
    /\ draftIn.kind = "renew"
    /\ LET out == ClientPayoutsPreTax(draftIn.args)
           hostCollateral == Deref(out, out.hostCollateral)
           \* lines 324-326
           baseCollateral == IF hostCollateral < draftIn.args.baseCollateral
                             THEN hostCollateral
                             ELSE draftIn.args.baseCollateral
           \* lines 331-332
           hostMiss == hostCollateral - baseCollateral + out.store.ContractPrice
       IN  draft' =
             IF out.err
             THEN [NoDraft EXCEPT !.done = TRUE, !.err = TRUE]
             ELSE IF ~draftIn.extended
             THEN [NoDraft EXCEPT !.done = TRUE, !.panic = TRUE]
             ELSE [NoDraft EXCEPT
                     !.done = TRUE, !.drafted = TRUE,
                     !.baseCollateral = draftIn.args.baseCollateral,
                     !.ValidProofOutputs =
                         <<Deref(out, out.clientPayout), Deref(out, out.hostPayout)>>,
                     !.MissedProofOutputs =
                         <<Deref(out, out.clientPayout), hostMiss>>]
    /\ UNCHANGED draftIn
    /\ UNCHANGED notDraft

DraftNext ==
    \/ draftStorageContract
    \/ contractRenewDraft

-----------------------------------------------------------------------------
(***************************************************************************)
(* The negotiation of a contract with a host: ContractCreateNegotiate      *)
(* (part_000:23-84) and ContractRenew from its deferred counter update on  *)
(* (contractrenew.go:354-488).  Each function is the list of its calls     *)
(* that can fail, in order.  errVar says where a failing call leaves its   *)
(* error: "outer", the variable err of the function's scope that the       *)
(* deferred function of lines 355-361 reads (err := with a new variable    *)
(* beside it, or err =); "inner", a variable of the if statement only      *)
(* (if err := ...; err != nil), or one of another name; "named", the       *)
(* result negotiateErr.  event is what a successful call added to the      *)
(* handshake, defers what the function deferred right after it.            *)
(***************************************************************************)
RenewSteps ==
    << [call |-> "AccountManager.Find",          errVar |-> "outer", event |-> "none",             defers |-> {}],
       [call |-> "SetupConnection",              errVar |-> "outer", event |-> "sessionOpened",    defers |-> {"Disconnect"}],
       [call |-> "SignHash(contract)",           errVar |-> "outer", event |-> "none",             defers |-> {}],
       [call |-> "SendStorageContractCreation",  errVar |-> "inner", event |-> "contractSent",     defers |-> {}],
       [call |-> "ReadMsg(contract)",            errVar |-> "outer", event |-> "none",             defers |-> {}],
       [call |-> "NegotiationErrorMsg(contract)", errVar |-> "inner", event |-> "none",            defers |-> {}],
       [call |-> "Decode(hostSign)",             errVar |-> "inner", event |-> "hostContractSign", defers |-> {}],
       [call |-> "SignHash(revision)",           errVar |-> "outer", event |-> "none",             defers |-> {}],
       [call |-> "SendClientRevisionSign",       errVar |-> "inner", event |-> "revisionSent",     defers |-> {}],
       [call |-> "ReadMsg(revision)",            errVar |-> "outer", event |-> "none",             defers |-> {}],
       [call |-> "NegotiationErrorMsg(revision)", errVar |-> "inner", event |-> "none",            defers |-> {}],
       [call |-> "Decode(hostRevisionSign)",     errVar |-> "inner", event |-> "hostRevisionSign", defers |-> {}],
       [call |-> "EncodeToBytes",                errVar |-> "outer", event |-> "none",             defers |-> {}],
       [call |-> "SendFormContractTX",           errVar |-> "inner", event |-> "txSubmitted",      defers |-> {}],
       [call |-> "MerkleRoots",                  errVar |-> "inner", event |-> "none",             defers |-> {}],
       [call |-> "InsertContract",               errVar |-> "inner", event |-> "committed",        defers |-> {}] >>

CreateSteps ==
    << [call |-> "draftStorageContract",              errVar |-> "named", event |-> "none",             defers |-> {}],
       [call |-> "AccountManager.Find",               errVar |-> "named", event |-> "none",             defers |-> {}],
       [call |-> "SetupConnection",                   errVar |-> "named", event |-> "sessionOpened",    defers |-> {"handleNegotiationErr"}],
       [call |-> "draftStorageContractNegotiate",     errVar |-> "named", event |-> "hostContractSign", defers |-> {}],
       [call |-> "storageContractRevisionNegotiate",  errVar |-> "named", event |-> "hostRevisionSign", defers |-> {}],
       [call |-> "sendStorageContractCreateTx",       errVar |-> "named", event |-> "txSubmitted",      defers |-> {}],
       [call |-> "clientStorageContractCommit",       errVar |-> "named", event |-> "commitAndAck",     defers |-> {}] >>

StepsOf(kind) == IF kind = "renew" THEN RenewSteps ELSE CreateSteps

\* What a successful call adds to the handshake.  clientStorageContractCommit
\* commits the record, sends the acknowledgement and reads the host's answer.
EventsOf(event) ==
    IF event = "none" THEN <<>>
    ELSE IF event = "commitAndAck" THEN <<"committed", "ackSent", "hostAck">>
    ELSE <<event>>

NoNegotiation ==
    [ kind |-> "none", pc |-> "idle", i |-> 1, err |-> FALSE, ret |-> FALSE,
      session |-> "none", events |-> <<>>, deferred |-> {},
      failed0 |-> 0, successful0 |-> 0 ]

\* The function is entered.  ContractRenew defers its counter update at line
\* 355, before its first call of the list.
negotiateStart(kind) ==
    /\ neg.pc = "idle"
    /\ negCount < MaxNegotiations
    /\ negCount' = negCount + 1
    /\ neg' = [NoNegotiation EXCEPT
                 !.kind = kind, !.pc = "calls",
                 !.deferred = IF kind = "renew" THEN {"countInteraction"} ELSE {},
                 !.failed0 = interactions.failed,
                 !.successful0 = interactions.successful]
    /\ UNCHANGED interactions
    /\ UNCHANGED notNeg

\* The next call of the list: it succeeds, or it fails and the function
\* returns the error.
negotiateCall ==
    /\ neg.pc = "calls"
    /\ LET steps == StepsOf(neg.kind)
           s == steps[neg.i]
       IN  \E ok \in BOOLEAN :
             neg' = IF ok
                    THEN [neg EXCEPT
                            !.i = neg.i + 1,
                            !.err = IF s.errVar = "inner" THEN neg.err ELSE FALSE,
                            !.session = IF s.event = "sessionOpened" THEN "open"
                                        ELSE neg.session,
                            !.events = neg.events \o EventsOf(s.event),
                            !.deferred = neg.deferred \cup s.defers,
                            !.pc = IF neg.i = Len(steps) THEN "return" ELSE "calls"]
                    ELSE [neg EXCEPT
                            !.ret = TRUE,
                            !.err = IF s.errVar = "inner" THEN neg.err ELSE TRUE,
                            !.pc = "return"]
    /\ UNCHANGED <<interactions, negCount>>
    /\ UNCHANGED notNeg

\* Whether the deferred update counts a failure.  Lines 355-361 test the
\* function's variable err; handleNegotiationErr gets &negotiateErr, the
\* error the function returns.
CountsFailure(deferred) ==
    IF deferred = "countInteraction" THEN neg.err ELSE neg.ret

\* The return: the deferred calls run.  Disconnect closes the session;
\* handleNegotiationErr counts a failed interaction and closes the session
\* when the negotiation returned an error, and counts a successful one when
\* it did not.
negotiateReturn ==
    /\ neg.pc = "return"
    /\ LET counting == neg.deferred \cap {"countInteraction", "handleNegotiationErr"}
           nFailed == Cardinality({d \in counting : CountsFailure(d)})
           nOK == Cardinality({d \in counting : ~CountsFailure(d)})
       IN  interactions' = [ failed |-> interactions.failed + nFailed,
                             successful |-> interactions.successful + nOK ]
    /\ neg' = [neg EXCEPT
                 !.pc = "done",
                 !.session = IF \/ "Disconnect" \in neg.deferred
                                \/ "handleNegotiationErr" \in neg.deferred /\ neg.ret
                             THEN "closed" ELSE neg.session]
    /\ UNCHANGED negCount
    /\ UNCHANGED notNeg

\* The caller goes on.
negotiateDone ==
    /\ neg.pc = "done"
    /\ neg' = NoNegotiation
    /\ UNCHANGED <<interactions, negCount>>
    /\ UNCHANGED notNeg

NegotiateNext ==
    \/ \E kind \in {"create", "renew"} : negotiateStart(kind)
    \/ negotiateCall
    \/ negotiateReturn
    \/ negotiateDone

-----------------------------------------------------------------------------
(***************************************************************************)
(* Validation of dpos transactions: SendApplyCandidateTx and SendVoteTx    *)
(* pass the request's fields through ParsePrecompileContractTxArgs and     *)
(* NewPrecompiledContractTxArgs to CheckDposOperationTx.  Amounts are in   *)
(* units of 10^17 camel.                                                   *)
(***************************************************************************)

\* big.NewInt(1e18), in units of 10^17.
minDeposit == 10
candidateThreshold == 10

MaxVoteCount == 30

\* The sender's balance, the deposits its account state records (0: the empty
\* hash), the "deposit" field (0 also when the field is absent: the zero
\* BigInt), and the "candidates" field: 0 when the request has none, else the
\* number of comma-separated entries of the string, at least one.
DposAmounts == {0, 9, 10, 20}
StoredDeposits == {0, 18, 25}
DepositValues == {-1, 0, 2, 5, 9, 10, 15, 20, 21}
CandidateCounts == {0, 1, MaxVoteCount, MaxVoteCount + 1}

DposInputs ==
    [ op : {"applyCandidate"}, balance : DposAmounts, voteDeposit : StoredDeposits,
      candidateDeposit : {0}, deposit : DepositValues, candidates : {0} ]
    \cup
    [ op : {"vote"}, balance : DposAmounts, voteDeposit : {0},
      candidateDeposit : StoredDeposits, deposit : DepositValues,
      candidates : CandidateCounts ]

\* ParsePrecompileContractTxArgs, lines 440-515: data stays nil without a
\* "candidates" field, else it is the RLP encoding of the addresses.
ParsePrecompileContractTxArgs(req) ==
    IF req.candidates > MaxVoteCount
    THEN [ err |-> "ErrBeyondMaxVoteSize", dataNil |-> TRUE, listLen |-> 0 ]
    ELSE [ err |-> "nil", dataNil |-> req.candidates = 0, listLen |-> req.candidates ]

\* NewPrecompiledContractTxArgs, lines 338-360: args.Input points to the input
\* or, for a nil input, to a new empty hexutil.Bytes.
NewPrecompiledContractTxArgs(dataNil, listLen) ==
    [ isNil |-> FALSE, listLen |-> IF dataNil THEN 0 ELSE listLen ]

DepositNotSuitable(deposit, allowedBal) == deposit <= 0 \/ deposit > allowedBal

DepositTooLowOrEqual(deposit) == deposit <= minDeposit

\* args.Value.ToInt().Cmp(minDeposit) < 0
DepositTooLow(deposit) == deposit < minDeposit

\* CheckDposOperationTx, lines 363-437, for the two operations.
CheckDposOperationTx(req, input) ==
    IF req.op = "applyCandidate"
    THEN IF req.balance < candidateThreshold
         THEN "ErrBalanceNotEnoughCandidateThreshold"
         ELSE IF DepositNotSuitable(req.deposit, req.balance - req.voteDeposit)
         THEN "ErrDepositValueNotSuitable"
         ELSE IF DepositTooLow(req.deposit)
         THEN "ErrCandidateDepositTooLow"
         ELSE "nil"
    ELSE IF input.isNil
         THEN "ErrEmptyInput"
         ELSE IF DepositNotSuitable(req.deposit, req.balance - req.candidateDeposit)
         THEN "ErrDepositValueNotSuitable"
         ELSE "nil"

NotChecked == [ done |-> FALSE, err |-> "nil", inputLen |-> 0 ]

\* SendApplyCandidateTx (150-178) and SendVoteTx (207-235) up to the check.
sendDposTx ==
    /\ ~dposOut.done
    /\ LET parsed == ParsePrecompileContractTxArgs(dposIn)
           input == NewPrecompiledContractTxArgs(parsed.dataNil, parsed.listLen)
       IN  dposOut' =
             IF parsed.err # "nil"
             THEN [ done |-> TRUE, err |-> parsed.err, inputLen |-> 0 ]
             ELSE [ done |-> TRUE, err |-> CheckDposOperationTx(dposIn, input),
                    inputLen |-> input.listLen ]
    /\ UNCHANGED dposIn
    /\ UNCHANGED notDpos

DposNext == sendDposTx

-----------------------------------------------------------------------------
(***************************************************************************)
(* The dpos send operations as concurrent calls: SendApplyCandidateTx,     *)
(* SendCancelCandidateTx, SendVoteTx and SendCancelVoteTx validate the     *)
(* request and hand it to sendPrecompiledContractTx, which builds, signs   *)
(* and submits the transaction under the sender's nonce lock.  Each action *)
(* is one access to state the callers share; what a call does between two  *)
(* of them is local to it.                                                 *)
(***************************************************************************)

NumCallers == 2
NumAddrs == 2
MaxCalls == 3

Callers == 1..NumCallers
Addrs == 1..NumAddrs

\* The requests the callers send: one accepted and one rejected request of
\* each operation; the cancel operations carry no fields.
SendRequests ==
    { [ op |-> "applyCandidate", balance |-> 20, voteDeposit |-> 0,
        candidateDeposit |-> 0, deposit |-> d, candidates |-> 0 ] : d \in {5, 15} }
    \cup
    { [ op |-> "vote", balance |-> 20, voteDeposit |-> 0,
        candidateDeposit |-> 0, deposit |-> 10, candidates |-> n ]
          : n \in {1, MaxVoteCount + 1} }
    \cup
    { [ op |-> "cancelCandidate", balance |-> 20, voteDeposit |-> 0,
        candidateDeposit |-> s, deposit |-> 0, candidates |-> 0 ] : s \in {0, 18} }
    \cup
    { [ op |-> "cancelVote", balance |-> 20, voteDeposit |-> s,
        candidateDeposit |-> 0, deposit |-> 0, candidates |-> 0 ] : s \in {0, 18} }

\* CheckDposOperationTx, lines 396-403 and 425-432: the cancel operations.
CheckDposCancelTx(req) ==
    IF req.op = "cancelCandidate"
    THEN IF req.candidateDeposit = 0 THEN "ErrNotCandidate" ELSE "nil"
    ELSE IF req.voteDeposit = 0 THEN "ErrHasNotVote" ELSE "nil"

\* The part of a Send*Tx before sendPrecompiledContractTx: parse (or, for
\* the cancel operations, construct), fetch the state, check.
ValidateDposTx(req, stateErr) ==
    IF req.op \in {"cancelCandidate", "cancelVote"}
    THEN IF stateErr THEN "ErrStateUnavailable" ELSE CheckDposCancelTx(req)
    ELSE LET parsed == ParsePrecompileContractTxArgs(req)
         IN  IF parsed.err # "nil" THEN parsed.err
             ELSE IF stateErr THEN "ErrStateUnavailable"
             ELSE CheckDposOperationTx(req,
                      NewPrecompiledContractTxArgs(parsed.dataNil, parsed.listLen))

ValidationIgnored(err) == FALSE

\* if err != nil { return common.Hash{}, err }
ValidationFailed(err) == err # "nil"

LockNotTaken(lock, addr) == TRUE

\* AddrLocker.LockAddr blocks while another call holds the address's lock.
LockFree(lock, addr) == lock[addr] = 0

NoCall ==
    [ pc |-> "idle", id |-> 0, op |-> "none", from |-> 1, err |-> "nil",
      validations |-> 0, nonce |-> 0, built |-> FALSE, signed |-> FALSE,
      submitted |-> FALSE ]

\* The deferred UnlockAddr of line 277, run on every return after line 276.
UnlockAddr(c) == [nonceLock EXCEPT ![sendCalls[c].from] = 0]

\* Send*Tx up to the call of sendPrecompiledContractTx.
sendDposOperation(c) ==
    /\ sendCalls[c].pc = "idle"
    /\ callCount < MaxCalls
    /\ \E req \in SendRequests, from \in Addrs, stateErr \in BOOLEAN :
         LET err == ValidateDposTx(req, stateErr)
         IN  sendCalls' = [sendCalls EXCEPT ![c] =
               [ NoCall EXCEPT !.pc = IF ValidationFailed(err) THEN "returned" ELSE "find",
                               !.id = callCount + 1,
                               !.op = req.op,
                               !.from = from,
                               !.err = err,
                               !.validations = 1 ]]
    /\ callCount' = callCount + 1
    /\ UNCHANGED <<nonceLock, poolNonce, txPool>>
    /\ UNCHANGED notSend

\* sendPrecompiledContractTx, lines 270-276: find the wallet, then take the
\* sender's nonce lock.
lockAddr(c) ==
    /\ sendCalls[c].pc = "find"
    /\ \E found \in BOOLEAN :
         IF ~found
         THEN /\ sendCalls' = [sendCalls EXCEPT ![c].pc = "returned",
                                                ![c].err = "ErrUnknownAccount"]
              /\ UNCHANGED nonceLock
         ELSE /\ LockFree(nonceLock, sendCalls[c].from)
              /\ nonceLock' = [nonceLock EXCEPT ![sendCalls[c].from] = c]
              /\ sendCalls' = [sendCalls EXCEPT ![c].pc = "build"]
    /\ UNCHANGED <<poolNonce, txPool, callCount>>
    /\ UNCHANGED notSend

\* NewPrecompiledContractTx, lines 317-335: the gas price, the pool nonce of
\* the sender, the transaction.
newPrecompiledContractTx(c) ==
    /\ sendCalls[c].pc = "build"
    /\ \E failed \in BOOLEAN :
         IF failed
         THEN /\ sendCalls' = [sendCalls EXCEPT ![c].pc = "returned",
                                                ![c].err = "ErrBackend"]
              /\ nonceLock' = UnlockAddr(c)
         ELSE /\ sendCalls' = [sendCalls EXCEPT ![c].pc = "sign",
                                                ![c].nonce = poolNonce[sendCalls[c].from],
                                                ![c].built = TRUE]
              /\ UNCHANGED nonceLock
    /\ UNCHANGED <<poolNonce, txPool, callCount>>
    /\ UNCHANGED notSend

\* sendPrecompiledContractTx, lines 285-295: wallet.SignTx.
signTx(c) ==
    /\ sendCalls[c].pc = "sign"
    /\ \E failed \in BOOLEAN :
         IF failed
         THEN /\ sendCalls' = [sendCalls EXCEPT ![c].pc = "returned",
                                                ![c].err = "ErrSign"]
              /\ nonceLock' = UnlockAddr(c)
         ELSE /\ sendCalls' = [sendCalls EXCEPT ![c].pc = "submit",
                                                ![c].signed = TRUE]
              /\ UNCHANGED nonceLock
    /\ UNCHANGED <<poolNonce, txPool, callCount>>
    /\ UNCHANGED notSend

\* sendPrecompiledContractTx, lines 297-302: b.SendTx, then the return with
\* its deferred unlock.  A pool that accepts the transaction hands out the
\* next nonce from then on.
sendTx(c) ==
    /\ sendCalls[c].pc = "submit"
    /\ \E failed \in BOOLEAN :
         IF failed
         THEN /\ sendCalls' = [sendCalls EXCEPT ![c].pc = "returned",
                                                ![c].err = "ErrSendTx"]
              /\ UNCHANGED <<poolNonce, txPool>>
         ELSE /\ sendCalls' = [sendCalls EXCEPT ![c].pc = "returned",
                                                ![c].submitted = TRUE]
              /\ txPool' = Append(txPool, [ from |-> sendCalls[c].from,
                                            nonce |-> sendCalls[c].nonce,
                                            call |-> sendCalls[c].id ])
              /\ poolNonce' = [poolNonce EXCEPT ![sendCalls[c].from] =
                                  IF sendCalls[c].nonce >= @ THEN sendCalls[c].nonce + 1 ELSE @]
    /\ nonceLock' = UnlockAddr(c)
    /\ UNCHANGED callCount
    /\ UNCHANGED notSend

\* The caller has the result; it may send again.
sendReturned(c) ==
    /\ sendCalls[c].pc = "returned"
    /\ sendCalls' = [sendCalls EXCEPT ![c] = NoCall]
    /\ UNCHANGED <<nonceLock, poolNonce, txPool, callCount>>
    /\ UNCHANGED notSend

SendNext ==
    \E c \in Callers :
        \/ sendDposOperation(c)
        \/ lockAddr(c)
        \/ newPrecompiledContractTx(c)
        \/ signTx(c)
        \/ sendTx(c)
        \/ sendReturned(c)

-----------------------------------------------------------------------------
(***************************************************************************)
(* The storage host manager: the pool of known hosts (storageHostTree),    *)
(* the filtered tree that random selection draws from, the filter mode     *)
(* and its list, and the queries RetrieveHostInfo, FilterIPViolationHosts  *)
(* and RetrieveRandomHosts.  A host info is reduced to the fields the      *)
(* queries read: the subnet of its IP and its LastIPNetWorkChange.         *)
(***************************************************************************)

NumHosts == 3
NumSubnets == 2
NumTimes == 3

HostIDs == 1..NumHosts
Subnets == 1..NumSubnets
Times == 1..NumTimes

NoHost == [ present |-> FALSE, IP |-> 0, LastIPNetWorkChange |-> 0 ]

HostInfos == [ present : {TRUE}, IP : Subnets, LastIPNetWorkChange : Times ]

FilterModes == {"DisableFilter", "WhitelistFilter", "BlacklistFilter"}

\* storagehosttree.RetrieveHostInfo: the ids the tree holds.
InTree(tree) == { id \in HostIDs : tree[id].present }

\* The ids in shm.filteredTree: New (line 214) makes it the pool's own tree.
FilteredTreeHosts ==
    IF filteredTreeShared THEN InTree(storageHostTree) ELSE filteredTree

FilteredIgnoringMode(mode, list, id) == id \in list

\* hi.Filtered = whitelist != exist, lines 343-351.
Filtered(mode, list, id) == (mode = "WhitelistFilter") # (id \in list)

NoHostCall ==
    [ op |-> "none", id |-> 0, ids |-> << >>, exists |-> FALSE,
      Filtered |-> FALSE, hosts |-> << >>, err |-> FALSE, scanFinished |-> FALSE ]

\* RetrieveHostInfo, lines 333-355.  The queries change nothing of the
\* manager, so each behaviour makes one query, from any state of the manager.
RetrieveHostInfo(id) ==
    /\ hostCall = NoHostCall
    /\ hostCall' =
         IF ~storageHostTree[id].present
         THEN [ NoHostCall EXCEPT !.op = "RetrieveHostInfo", !.id = id ]
         ELSE [ NoHostCall EXCEPT !.op = "RetrieveHostInfo", !.id = id,
                                  !.exists = TRUE,
                                  !.Filtered = Filtered(filterMode, filteredHosts, id) ]
    /\ UNCHANGED <<storageHostTree, filteredTree, filteredTreeShared, filterMode,
                   filteredHosts, ipViolationCheck, initialScanFinished>>
    /\ UNCHANGED notHost

\* The elements of a sequence that satisfy keep(_), in order.
RECURSIVE SelectIDs(_, _)
SelectIDs(ids, keep) ==
    IF ids = << >> THEN << >>
    ELSE (IF Head(ids) \in keep THEN <<Head(ids)>> ELSE << >>)
             \o SelectIDs(Tail(ids), keep)

AnyOrder(ids) ==
    { s \in [1..Len(ids) -> { ids[i] : i \in 1..Len(ids) }] :
        \A i, j \in 1..Len(ids) : i # j => s[i] # s[j] }

\* sort.Slice by LastIPNetWorkChange.Before, lines 398-400: any order of the
\* same hosts in which no host comes before one that changed earlier; the
\* sort is not stable.
SortedByLastIPChange(ids) ==
    { s \in [1..Len(ids) -> { ids[i] : i \in 1..Len(ids) }] :
        /\ \A i, j \in 1..Len(ids) : i # j => s[i] # s[j]
        /\ \A i, j \in 1..Len(ids) :
              i < j => storageHostTree[s[i]].LastIPNetWorkChange
                           <= storageHostTree[s[j]].LastIPNetWorkChange }

\* The filter loop, lines 403-410: a host whose subnet was added before is
\* bad, any other adds its subnet.
RECURSIVE ipFilterLoop(_, _)
ipFilterLoop(sorted, seen) ==
    IF sorted = << >> THEN << >>
    ELSE LET hi == storageHostTree[Head(sorted)]
         IN  IF hi.IP \in seen
             THEN <<Head(sorted)>> \o ipFilterLoop(Tail(sorted), seen)
             ELSE ipFilterLoop(Tail(sorted), seen \cup {hi.IP})

\* FilterIPViolationHosts, lines 374-413, on a list of distinct ids.
FilterIPViolationHosts(ids) ==
    /\ hostCall = NoHostCall
    /\ \E sorted \in SortedByLastIPChange(SelectIDs(ids, InTree(storageHostTree))) :
         hostCall' =
           [ NoHostCall EXCEPT
               !.op = "FilterIPViolationHosts",
               !.ids = ids,
               !.hosts = IF ~ipViolationCheck THEN << >>
                         ELSE SelectIDs(ids, HostIDs \ InTree(storageHostTree))
                                  \o ipFilterLoop(sorted, {}) ]
    /\ UNCHANGED <<storageHostTree, filteredTree, filteredTreeShared, filterMode,
                   filteredHosts, ipViolationCheck, initialScanFinished>>
    /\ UNCHANGED notHost

\* The lists of distinct host ids.
IDLists ==
    { s \in UNION { [1..n -> HostIDs] : n \in 0..NumHosts } :
        \A i, j \in 1..Len(s) : i # j => s[i] # s[j] }

HostQueryNext ==
    \/ \E id \in HostIDs : RetrieveHostInfo(id)
    \/ \E ids \in IDLists : FilterIPViolationHosts(ids)

-----------------------------------------------------------------------------
(***************************************************************************)
(* The storage host manager as its pool changes: insert, remove and        *)
(* modify, the change of the filter mode, the end of the initial scan and  *)
(* RetrieveRandomHosts.                                                    *)
(***************************************************************************)

\* The host infos the pool operations carry: the time of the last network
\* change plays no part in them.
PoolInfos == { hi \in HostInfos : hi.LastIPNetWorkChange = 1 }

\* shm.filteredTree after an Insert, a Remove or a HostInfoUpdate of the
\* pool's tree: the same tree when it is shared, untouched otherwise.
MirrorsToFilteredTree(id) == id \in filteredHosts /\ filterMode = "WhitelistFilter"

\* insert, lines 471-490.
insert(id, hi) ==
    /\ storageHostTree' =
         IF storageHostTree[id].present THEN storageHostTree
         ELSE [storageHostTree EXCEPT ![id] = hi]
    /\ filteredTree' =
         IF MirrorsToFilteredTree(id) /\ ~filteredTreeShared
         THEN filteredTree \cup {id}
         ELSE filteredTree
    /\ UNCHANGED <<filteredTreeShared, filterMode, filteredHosts, ipViolationCheck,
                   initialScanFinished, hostCall>>
    /\ UNCHANGED notHost

\* remove, lines 493-504.
remove(id) ==
    /\ storageHostTree' = [storageHostTree EXCEPT ![id] = NoHost]
    /\ filteredTree' =
         IF MirrorsToFilteredTree(id) /\ ~filteredTreeShared
         THEN filteredTree \ {id}
         ELSE filteredTree
    /\ UNCHANGED <<filteredTreeShared, filterMode, filteredHosts, ipViolationCheck,
                   initialScanFinished, hostCall>>
    /\ UNCHANGED notHost

\* modify, lines 507-521: the info of a host in the tree is replaced; the
\* filtered tree holds the same ids as before.
modify(id, hi) ==
    /\ storageHostTree' =
         IF storageHostTree[id].present
         THEN [storageHostTree EXCEPT ![id] = hi]
         ELSE storageHostTree
    /\ UNCHANGED <<filteredTree, filteredTreeShared, filterMode, filteredHosts,
                   ipViolationCheck, initialScanFinished, hostCall>>
    /\ UNCHANGED notHost

\* The change of the filter mode: disabling the filter shares the pool's
\* tree again; a white or black list builds a filtered tree of the hosts of
\* the pool that the list does not filter.
SetFilterMode(fm, list) ==
    /\ filterMode' = fm
    /\ filteredHosts' = IF fm = "DisableFilter" THEN {} ELSE list
    /\ filteredTreeShared' = (fm = "DisableFilter")
    /\ filteredTree' =
         IF fm = "DisableFilter" THEN {}
         ELSE { id \in InTree(storageHostTree) : ~Filtered(fm, list, id) }
    /\ UNCHANGED <<storageHostTree, ipViolationCheck, initialScanFinished, hostCall>>
    /\ UNCHANGED notHost

\* SetIPViolationCheck, lines 359-363.
SetIPViolationCheck(violationCheck) ==
    /\ ipViolationCheck' = violationCheck
    /\ UNCHANGED <<storageHostTree, filteredTree, filteredTreeShared, filterMode,
                   filteredHosts, initialScanFinished, hostCall>>
    /\ UNCHANGED notHost

\* finishInitialScan, lines 561-563.
finishInitialScan ==
    /\ initialScanFinished' = 1
    /\ UNCHANGED <<storageHostTree, filteredTree, filteredTreeShared, filterMode,
                   filteredHosts, ipViolationCheck, hostCall>>
    /\ UNCHANGED notHost

ScanAssumedFinished(flag) == TRUE

\* isInitialScanFinished, lines 556-558.
isInitialScanFinished(flag) == flag = 1

\* SelectRandom of the filtered tree: at most num of its hosts that are not
\* blacklisted, each once, in any order.
SelectRandom(num, blacklist) ==
    { s \in UNION { [1..n -> FilteredTreeHosts \ blacklist] : n \in 0..num } :
        \A i, j \in 1..Len(s) : i # j => s[i] # s[j] }

\* RetrieveRandomHosts, lines 418-437.
RetrieveRandomHosts(num, blacklist) ==
    /\ IF ~isInitialScanFinished(initialScanFinished)
       THEN hostCall' = [ NoHostCall EXCEPT !.op = "RetrieveRandomHosts", !.err = TRUE ]
       ELSE \E infos \in SelectRandom(num, blacklist) :
              hostCall' = [ NoHostCall EXCEPT !.op = "RetrieveRandomHosts",
                                              !.hosts = infos,
                                              !.scanFinished = (initialScanFinished = 1) ]
    /\ UNCHANGED <<storageHostTree, filteredTree, filteredTreeShared, filterMode,
                   filteredHosts, ipViolationCheck, initialScanFinished>>
    /\ UNCHANGED notHost

HostPoolNext ==
    \/ \E id \in HostIDs, hi \in PoolInfos : insert(id, hi)
    \/ \E id \in HostIDs : remove(id)
    \/ \E id \in HostIDs, hi \in PoolInfos : modify(id, hi)
    \/ \E fm \in FilterModes, list \in SUBSET HostIDs : SetFilterMode(fm, list)
    \/ \E violationCheck \in BOOLEAN : SetIPViolationCheck(violationCheck)
    \/ finishInitialScan
    \/ \E num \in 0..NumHosts, blacklist \in SUBSET HostIDs :
          RetrieveRandomHosts(num, blacklist)

-----------------------------------------------------------------------------
(***************************************************************************)
(* Lucky-wheel random selection (consensus/dpos/random_selector.go): the   *)
(* same entries, seed and target are given to two runs of the selection.   *)
(* rand.Rand is a generator whose outputs are a function of its seed: a    *)
(* linear congruential generator stands for it.                            *)
(***************************************************************************)

NumEntryAddrs == 3
MaxVote == 2
MaxSeed == 3
MaxTarget == 4

\* The modulus of the generator standing for rand.Rand.
RandModulus == 16

EntryAddrs == 1..NumEntryAddrs
Runs == {1, 2}

\* common.Address{}: the zero value make() fills the results with.
ZeroAddress == 0

\* randomSelectorEntries with distinct addresses.
EntryLists ==
    { s \in UNION { [1..n -> [ addr : EntryAddrs, vote : 0..MaxVote ]]
                      : n \in 0..NumEntryAddrs } :
        \A i, j \in 1..Len(s) : i # j => s[i].addr # s[j].addr }

WheelInputs == [ entries : EntryLists, seed : 0..MaxSeed, target : 0..MaxTarget ]

\* rand.NewSource(seed) and one step of the generator.
NewSource(seed) == seed % RandModulus
RandStep(r) == (5 * r + 3) % RandModulus

\* randomBigInt, lines 247-250: a number in [0, max) from the generator's
\* next output; 0 when max is 0.
randomBigInt(r, max) == IF max = 0 THEN 0 ELSE RandStep(r) % max

RECURSIVE SumVotes(_)
SumVotes(entries) ==
    IF entries = << >> THEN 0 ELSE Head(entries).vote + SumVotes(Tail(entries))

\* listAddresses, lines 238-244.
listAddresses(entries) == [ i \in 1..Len(entries) |-> entries[i].addr ]

\* newLuckyWheel, lines 148-164.
newLuckyWheel(in) ==
    [ pc |-> "new", rand |-> NewSource(in.seed), entries |-> in.entries,
      target |-> in.target, results |-> [ i \in 1..in.target |-> ZeroAddress ],
      sumVotes |-> SumVotes(in.entries), i |-> 0, sanity |-> FALSE ]

\* selectSingleEntry, lines 199-213, from position k of the entries with
\* what is left of the number drawn: the index of the selected entry.
RECURSIVE selectSingleEntry(_, _, _)
selectSingleEntry(entries, k, selected) ==
    IF k > Len(entries) THEN Len(entries)
    ELSE IF selected < entries[k].vote THEN k
    ELSE selectSingleEntry(entries, k + 1, selected - entries[k].vote)

\* lines 200-212: no entry was selected in the loop and the return of line
\* 212 is taken.
SanityReturn(entries, selected) ==
    \A k \in 1..Len(entries) : selected >= SumVotes(SubSeq(entries, 1, k))

EntryKept(entries, k) == entries

\* lines 187-191: the entries without the selected one.
EntryRemoved(entries, k) ==
    [ i \in 1..(Len(entries) - 1) |-> IF i < k THEN entries[i] ELSE entries[i + 1] ]

\* rand.Shuffle: for i from the last position down to the second, swap
\* position i with a position drawn from the first i.
RECURSIVE Shuffle(_, _, _)
Shuffle(list, i, r) ==
    IF i < 2 THEN [ list |-> list, rand |-> r ]
    ELSE LET j == (RandStep(r) % i) + 1
         IN  Shuffle([list EXCEPT ![i] = list[j], ![j] = list[i]], i - 1, RandStep(r))

\* randomSelect, lines 176-179: fewer entries than the target.
shuffleAndWriteEntriesToResult(run) ==
    /\ wheel[run].pc = "new"
    /\ Len(wheel[run].entries) < wheel[run].target
    /\ LET list == listAddresses(wheel[run].entries)
           done == Shuffle(list, Len(list), wheel[run].rand)
       IN  wheel' = [wheel EXCEPT ![run].pc = "selected",
                                  ![run].results = done.list,
                                  ![run].rand = done.rand]
    /\ UNCHANGED wheelIn
    /\ UNCHANGED notWheel

\* randomSelect, lines 181-194: one round of the selection loop.  The
\* difference computed at line 193 is dropped: sumVotes stays as it is.
\* sanity records that a selection returned at line 212.
selectEntry(run) ==
    /\ wheel[run].pc \in {"new", "selecting"}
    /\ Len(wheel[run].entries) + wheel[run].i >= wheel[run].target
    /\ wheel[run].i < wheel[run].target
    /\ LET w == wheel[run]
           selectedIndex ==
               selectSingleEntry(w.entries, 1, randomBigInt(w.rand, w.sumVotes))
       IN  wheel' = [wheel EXCEPT
               ![run].pc = "selecting",
               ![run].rand = RandStep(w.rand),
               ![run].results = [w.results EXCEPT ![w.i + 1] = w.entries[selectedIndex].addr],
               ![run].entries = EntryRemoved(w.entries, selectedIndex),
               ![run].i = w.i + 1,
               ![run].sanity = w.sanity \/
                   SanityReturn(w.entries, randomBigInt(w.rand, w.sumVotes))]
    /\ UNCHANGED wheelIn
    /\ UNCHANGED notWheel

\* randomSelect, line 181: the loop ends; RandomSelect returns the results.
RandomSelect(run) ==
    /\ wheel[run].pc \in {"new", "selecting"}
    /\ Len(wheel[run].entries) + wheel[run].i >= wheel[run].target
    /\ wheel[run].i = wheel[run].target
    /\ wheel' = [wheel EXCEPT ![run].pc = "selected"]
    /\ UNCHANGED wheelIn
    /\ UNCHANGED notWheel

WheelNext ==
    \E run \in Runs :
        \/ shuffleAndWriteEntriesToResult(run)
        \/ selectEntry(run)
        \/ RandomSelect(run)

-----------------------------------------------------------------------------
(***************************************************************************)
(* StorageClient.uploadLoop (uploadheap.go, lines 451-520) as a process    *)
(* over the upload heap, one action per access to the heap, while other    *)
(* goroutines push segments and workers finish repairs.                    *)
(***************************************************************************)

\* The limit of dispatches of one uploadLoop call.
MaxConsecutiveSegmentUploads == 2

MaxPushes == 4

\* The segments pushed while the loop runs: any id, stuck or not.
LoopSegments == { s \in Segments : s.sectorsCompletedNum = 1 /\ s.sectorsNeedNum = 10 }

NoLoop ==
    [ pc |-> "idle", consecutiveSegmentUploads |-> 0, stuckSegments |-> << >>,
      exit |-> "none", atLimit |-> {}, atExit |-> {}, markedStuck |-> {},
      dispatched |-> {}, pushes |-> 0 ]

\* uploadLoop returns; the heap as it is then is kept for the properties.
LoopReturn(why) ==
    [ loop EXCEPT !.pc = "returned", !.exit = why, !.atExit = Range(heap) ]

\* Another goroutine calls uploadHeap.push(uuc), lines 92-104.
pushDuringLoop(uuc) ==
    /\ loop.pushes < MaxPushes
    /\ Len(heap) < MaxHeapLen
    /\ IF PushAdmits(uuc)
       THEN /\ heapSegments' = heapSegments \cup {uuc.id}
            /\ heap' = HeapPush(heap, uuc)
            /\ added' = TRUE
       ELSE /\ UNCHANGED <<heapSegments, heap>>
            /\ added' = FALSE
    /\ loop' = [loop EXCEPT !.pushes = @ + 1]
    /\ UNCHANGED <<repairingSegments, nextSegment, pushOrder, rebuildHeapSignal>>
    /\ UNCHANGED notHeapLoop

\* time.After(RebuildSegmentHeapInterval), line 453: the timer fires.
rebuildHeapSignalFires ==
    /\ loop.pc \notin {"idle", "returned"}
    /\ ~rebuildHeapSignal
    /\ rebuildHeapSignal' = TRUE
    /\ UNCHANGED loop
    /\ UNCHANGED heapVars
    /\ UNCHANGED notHeapLoop

\* doUploadAndRepair calls uploadLoop, line 550.
uploadLoopCalled ==
    /\ loop.pc = "idle"
    /\ loop' = [loop EXCEPT !.pc = "select"]
    /\ UNCHANGED rebuildHeapSignal
    /\ UNCHANGED heapVars
    /\ UNCHANGED notHeapLoop

\* Lines 455-472: the stop channel and the timer, sc.Online(), then
\* uploadHeap.pop(): uploadLoop returns on any of the first three and on an
\* empty heap.
uploadLoopPop ==
    /\ loop.pc = "select"
    /\ \E stopped, online \in BOOLEAN :
         IF stopped
         THEN /\ loop' = LoopReturn("stop")
              /\ UNCHANGED heapVars
         ELSE IF rebuildHeapSignal
         THEN /\ loop' = LoopReturn("timer")
              /\ UNCHANGED heapVars
         ELSE IF ~online
         THEN /\ loop' = LoopReturn("offline")
              /\ UNCHANGED heapVars
         ELSE IF heap = << >>
         THEN /\ loop' = LoopReturn("empty")
              /\ UNCHANGED heapVars
         ELSE /\ nextSegment' = HeapPopResult(heap)
              /\ heap' = HeapPopRest(heap)
              /\ heapSegments' = heapSegments \ {HeapPopResult(heap).id}
              /\ loop' = [loop EXCEPT !.pc = "popped"]
              /\ UNCHANGED <<repairingSegments, added, pushOrder>>
    /\ UNCHANGED rebuildHeapSignal
    /\ UNCHANGED notHeapLoop

\* Lines 474-498: too few workers, or no memory granted: setStuckAndClose
\* and the next round.
uploadLoopSetStuck ==
    /\ loop.pc = "popped"
    /\ loop' = [loop EXCEPT !.pc = "select",
                            !.markedStuck = @ \cup {nextSegment.id}]
    /\ nextSegment' = NoSegment
    /\ UNCHANGED <<heap, heapSegments, repairingSegments, added, pushOrder,
                   rebuildHeapSignal>>
    /\ UNCHANGED notHeapLoop

\* Lines 490, 499-502 and doPrepareNextSegment, 423-432: memory granted, the
\* segment goes to the workers (its id into repairingSegments), the count
\* of dispatches is raised and compared with the limit.
doPrepareNextSegment ==
    /\ loop.pc = "popped"
    /\ repairingSegments' = repairingSegments \cup {nextSegment.id}
    /\ nextSegment' = NoSegment
    /\ loop' = [loop EXCEPT
         !.consecutiveSegmentUploads = @ + 1,
         !.dispatched = @ \cup {nextSegment.id},
         !.pc = IF loop.consecutiveSegmentUploads + 1 >= MaxConsecutiveSegmentUploads
                THEN "drain" ELSE "select",
         !.atLimit = IF loop.consecutiveSegmentUploads + 1 >= MaxConsecutiveSegmentUploads
                     THEN Range(heap) ELSE @]
    /\ UNCHANGED <<heap, heapSegments, added, pushOrder, rebuildHeapSignal>>
    /\ UNCHANGED notHeapLoop

\* Lines 504-508: while the heap is not empty pop; keep the stuck segments.
uploadLoopDrain ==
    /\ loop.pc = "drain"
    /\ IF heap = << >>
       THEN /\ loop' = [loop EXCEPT !.pc = "repush"]
            /\ UNCHANGED <<heap, heapSegments>>
       ELSE /\ heap' = HeapPopRest(heap)
            /\ heapSegments' = heapSegments \ {HeapPopResult(heap).id}
            /\ loop' = [loop EXCEPT !.stuckSegments =
                          IF HeapPopResult(heap).stuck
                          THEN Append(@, HeapPopResult(heap)) ELSE @]
    /\ UNCHANGED <<repairingSegments, nextSegment, added, pushOrder, rebuildHeapSignal>>
    /\ UNCHANGED notHeapLoop

\* Lines 509-517: push the stuck segments back, one push each; a rejected
\* one has its file closed.  After the last, uploadLoop returns.
uploadLoopRepush ==
    /\ loop.pc = "repush"
    /\ IF loop.stuckSegments = << >>
       THEN /\ loop' = LoopReturn("limit")
            /\ UNCHANGED <<heap, heapSegments, added>>
       ELSE LET ss == Head(loop.stuckSegments)
            IN  /\ IF PushAdmits(ss)
                   THEN /\ heapSegments' = heapSegments \cup {ss.id}
                        /\ heap' = HeapPush(heap, ss)
                        /\ added' = TRUE
                   ELSE /\ UNCHANGED <<heapSegments, heap>>
                        /\ added' = FALSE
                /\ loop' = [loop EXCEPT !.stuckSegments = Tail(@)]
    /\ UNCHANGED <<repairingSegments, nextSegment, pushOrder, rebuildHeapSignal>>
    /\ UNCHANGED notHeapLoop

\* A worker finishes or gives up the repair of a segment.
repairEnds(id) ==
    /\ id \in repairingSegments
    /\ repairingSegments' = repairingSegments \ {id}
    /\ UNCHANGED <<heap, heapSegments, nextSegment, added, pushOrder>>
    /\ UNCHANGED loopVars
    /\ UNCHANGED notHeapLoop

LoopSteps ==
    \/ uploadLoopCalled
    \/ uploadLoopPop
    \/ uploadLoopSetStuck
    \/ doPrepareNextSegment
    \/ uploadLoopDrain
    \/ uploadLoopRepush

LoopNext ==
    \/ \E uuc \in LoopSegments : pushDuringLoop(uuc)
    \/ rebuildHeapSignalFires
    \/ LoopSteps
    \/ \E id \in SegmentIDs : repairEnds(id)

-----------------------------------------------------------------------------
(***************************************************************************)
(* createUnfinishedSegments (uploadheap.go, lines 116-218) for one segment *)
(* of a file: from the host set and the sectors the file records for the   *)
(* segment it fills sectorSlotsStatus, sectorsCompletedNum and             *)
(* unusedHosts.                                                            *)
(***************************************************************************)

NumSectors == 2
NumSectorHosts == 3
MaxSectorSet == 2

SectorHosts == 1..NumSectorHosts

\* entry.Sectors(index)[sectorIndex]: the hosts holding a copy of the sector
\* of one slot.
SectorSets == UNION { [1..n -> SectorHosts] : n \in 0..MaxSectorSet }

\* The hosts given to the function, the sectors of the segment, and for
\* each host whether its contract is good for renew.
SegmentInputs ==
    [ hosts : SUBSET SectorHosts,
      sectors : [1..NumSectors -> SectorSets],
      GoodForRenew : [SectorHosts -> BOOLEAN] ]

\* Lines 156-179: the new segment, every given host unused.
newUnfinishedSegment(in) ==
    [ built |-> TRUE,
      sectorsNeedNum |-> NumSectors,
      sectorsCompletedNum |-> 0,
      sectorSlotsStatus |-> [slot \in 1..NumSectors |-> FALSE],
      unusedHosts |-> in.hosts ]

NotBuilt ==
    [ built |-> FALSE, sectorsNeedNum |-> NumSectors, sectorsCompletedNum |-> 0,
      sectorSlotsStatus |-> [slot \in 1..NumSectors |-> FALSE], unusedHosts |-> {} ]

\* Line 201: contractUtility := storage.ContractUtility{}, the zero value;
\* the lookup of the host's contract is commented out.
ContractUtility(in, host) == [ GoodForRenew |-> FALSE ]

\* Lines 202-215: one sector of a slot.
markSector(in, seg, sectorIndex, host) ==
    IF ~ContractUtility(in, host).GoodForRenew THEN seg
    ELSE LET exists == host \in seg.unusedHosts
             redundantSector == seg.sectorSlotsStatus[sectorIndex]
         IN  IF exists /\ ~redundantSector
             THEN [ seg EXCEPT !.sectorSlotsStatus[sectorIndex] = TRUE,
                               !.sectorsCompletedNum = @ + 1,
                               !.unusedHosts = @ \ {host} ]
             ELSE IF exists
             THEN [ seg EXCEPT !.unusedHosts = @ \ {host} ]
             ELSE seg

\* Lines 185-218: the sectors of slot sectorIndex from position k on, then
\* the next slots.
RECURSIVE markSectors(_, _, _, _)
markSectors(in, seg, sectorIndex, k) ==
    IF sectorIndex > NumSectors THEN seg
    ELSE IF k > Len(in.sectors[sectorIndex])
    THEN markSectors(in, seg, sectorIndex + 1, 1)
    ELSE markSectors(in, markSector(in, seg, sectorIndex, in.sectors[sectorIndex][k]),
                     sectorIndex, k + 1)

\* createUnfinishedSegments, for a segment it builds.
createUnfinishedSegments ==
    /\ ~segOut.built
    /\ segOut' = markSectors(segIn, newUnfinishedSegment(segIn), 1, 1)
    /\ UNCHANGED segIn
    /\ UNCHANGED notSeg

SegmentNext == createUnfinishedSegments

-----------------------------------------------------------------------------
(***************************************************************************)
(* createUnfinishedSegments (uploadheap.go, lines 116-267) on a file: the  *)
(* segments of the targeted class are built, then filtered; the segments   *)
(* filtered out have their stuck flag written.                             *)
(***************************************************************************)

NumFileSegments == 2
MinSectors == 1

\* repairTarget, lines 23-31.
RepairTargets == {"targetStuckSegments", "targetUnstuckSegments"}

\* segmentHealth against the two thresholds of lines 230 and 233: below
\* UnstuckHealthThreshold, at least that but not CompleteHealthThreshold, or
\* CompleteHealthThreshold.
HealthClasses == {"belowUnstuck", "unstuck", "complete"}

\* The sectors a file records for one slot of a segment: none, or one sector
\* on one of two hosts.
FileSectorSets == {<< >>, <<1>>, <<2>>}

\* A segment of the file: entry.GetStuckByIndex, entry.SegmentHealth and
\* entry.Sectors.
FileSegments ==
    [ stuck : BOOLEAN, health : HealthClasses,
      sectors : [1..NumSectors -> FileSectorSets] ]

\* The contracts of the hosts: none good for renew, or all.
ContractTables ==
    { [h \in SectorHosts |-> FALSE], [h \in SectorHosts |-> TRUE] }

\* The arguments of createUnfinishedSegments with what it reads: the number
\* of workers, whether the local file of the entry exists (os.Stat), the
\* hosts and their contracts.
BuildInputs ==
    [ target : RepairTargets, workers : 0..MinSectors, localPath : BOOLEAN,
      hosts : {{1, 2}}, GoodForRenew : ContractTables,
      segments : [1..NumFileSegments -> FileSegments] ]

\* Lines 127-132: the indexes of the segments whose stuck flag is the one
\* the target asks for, in order, from index i on.
RECURSIVE segmentIndexes(_, _)
segmentIndexes(in, i) ==
    IF i > Len(in.segments) THEN << >>
    ELSE IF (in.target = "targetStuckSegments") = in.segments[i].stuck
    THEN <<i>> \o segmentIndexes(in, i + 1)
    ELSE segmentIndexes(in, i + 1)

\* Lines 145-218: the unfinished segment of index `index`.
builtSegment(in, index) ==
    LET s == [ hosts |-> in.hosts, sectors |-> in.segments[index].sectors,
               GoodForRenew |-> in.GoodForRenew ]
        seg == markSectors(s, newUnfinishedSegment(s), 1, 1)
    IN  [ index |-> index, stuck |-> in.segments[index].stuck,
          stuckRepair |-> FALSE,
          sectorsNeedNum |-> seg.sectorsNeedNum,
          sectorsCompletedNum |-> seg.sectorsCompletedNum ]

\* Line 230: downloadable := segmentHealth >= UnstuckHealthThreshold || err == nil.
downloadable(in, index) ==
    in.segments[index].health # "belowUnstuck" \/ in.localPath

NothingBuilt ==
    [ done |-> FALSE, aborted |-> FALSE, incompleteSegments |-> << >>,
      SetStuckByIndex |-> {}, setStuckAndClose |-> {} ]

\* Lines 222-266: the filter over the built segments, from position k of the
\* indexes on.  SetStuckByIndex holds the indexes written stuck (lines 246
\* and 253), setStuckAndClose those written not stuck (line 261).
RECURSIVE filterSegments(_, _, _, _)
filterSegments(in, indexes, k, out) ==
    IF k > Len(indexes) THEN out
    ELSE LET segment == builtSegment(in, indexes[k])
             incomplete == segment.sectorsCompletedNum < segment.sectorsNeedNum
             stuck == ~incomplete /\ in.segments[indexes[k]].health # "complete"
         IN  IF incomplete /\ (downloadable(in, indexes[k])
                                  \/ in.target = "targetStuckSegments")
             THEN filterSegments(in, indexes, k + 1,
                      [ out EXCEPT !.incompleteSegments = Append(@, segment) ])
             ELSE IF ~downloadable(in, indexes[k]) \/ stuck
             THEN filterSegments(in, indexes, k + 1,
                      [ out EXCEPT !.SetStuckByIndex = @ \cup {indexes[k]} ])
             ELSE filterSegments(in, indexes, k + 1,
                      [ out EXCEPT !.setStuckAndClose = @ \cup {indexes[k]} ])

\* createUnfinishedSegments, lines 116-267.  With fewer workers than
\* MinSectors it marks the unhealthy segments stuck and returns nil (117-123).
createUnfinishedSegmentsResult(in) ==
    IF in.workers < MinSectors
    THEN [ NothingBuilt EXCEPT !.done = TRUE, !.aborted = TRUE ]
    ELSE filterSegments(in, segmentIndexes(in, 1), 1,
                        [ NothingBuilt EXCEPT !.done = TRUE ])

createUnfinishedSegmentsOfFile ==
    /\ ~buildOut.done
    /\ buildOut' = createUnfinishedSegmentsResult(buildIn)
    /\ UNCHANGED buildIn
    /\ UNCHANGED notBuild

BuildNext == createUnfinishedSegmentsOfFile

-----------------------------------------------------------------------------
(***************************************************************************)
(* pushDirToSegmentHeap with the stuck target (uploadheap.go, lines        *)
(* 335-420) and createAndPushRandomSegment (lines 270-311): a pass over    *)
(* the files of a directory that pushes one segment onto the upload heap.  *)
(* Between passes uploadLoop pops and dispatches.                          *)
(***************************************************************************)

NumDirFiles == 2
MaxPasses == 2

\* A segment of a file of the directory: stuck or not.
DirSegments ==
    [ stuck : BOOLEAN, health : {"belowUnstuck"},
      sectors : {[slot \in 1..NumSectors |-> << >>]} ]

\* The directory, the number of workers and whether the local files exist.
PassInputs ==
    [ workers : 0..MinSectors, localPath : BOOLEAN,
      files : [1..NumDirFiles -> [1..NumFileSegments -> DirSegments]] ]

NoPass == [ passes |-> 0, files |-> << >>, file |-> 0, pushed |-> NoSegment ]

\* file.NumStuckSegments().
NumStuckSegments(file) ==
    Cardinality({ i \in 1..Len(file) : file[i].stuck })

\* Lines 343-390 for the stuck target: the files of the directory that have
\* a stuck segment, in order, from file f on.
RECURSIVE stuckFiles(_, _)
stuckFiles(in, f) ==
    IF f > Len(in.files) THEN << >>
    ELSE IF NumStuckSegments(in.files[f]) = 0
    THEN stuckFiles(in, f + 1)
    ELSE <<f>> \o stuckFiles(in, f + 1)

\* Line 282: createUnfinishedSegments(file, hosts, target, table) on file f.
unfinishedUploadSegments(in, f) ==
    createUnfinishedSegmentsResult(
        [ target |-> "targetStuckSegments", workers |-> in.workers,
          localPath |-> in.localPath, hosts |-> {1, 2},
          GoodForRenew |-> [h \in SectorHosts |-> FALSE],
          segments |-> in.files[f] ]).incompleteSegments

StuckRepairLeftUnset(segment) == segment

\* Line 294: randSegment.stuckRepair = true.
SetStuckRepair(segment) == [ segment EXCEPT !.stuckRepair = TRUE ]

\* The segment as the heap holds it: its id is the file and the index
\* (lines 157-160).
randSegment(f, segment) ==
    [ id |-> <<f, segment.index>>, stuck |-> segment.stuck,
      stuckRepair |-> SetStuckRepair(segment).stuckRepair,
      sectorsCompletedNum |-> segment.sectorsCompletedNum,
      sectorsNeedNum |-> segment.sectorsNeedNum ]

\* The pass returns without a push: no file with a stuck segment (393-396),
\* or no segment built from the file picked (286-289).
passWithoutPush(files, f) ==
    /\ pass' = [ passes |-> pass.passes + 1, files |-> files, file |-> f,
                 pushed |-> NoSegment ]
    /\ UNCHANGED heapVars

\* pushDirToSegmentHeap(dir, hosts, targetStuckSegments).  randFile and
\* randSegment are the two results of rand.Intn (lines 277 and 292), taken
\* modulo the lengths.
pushDirToSegmentHeap(randFileIndex, randSegmentIndex) ==
    /\ pass.passes < MaxPasses
    /\ Len(heap) < MaxHeapLen
    /\ LET files == stuckFiles(passIn, 1)
       IN  IF files = << >>
           THEN passWithoutPush(files, 0)
           ELSE LET f == files[(randFileIndex % Len(files)) + 1]
                    segments == unfinishedUploadSegments(passIn, f)
                IN  IF segments = << >>
                    THEN passWithoutPush(files, f)
                    ELSE LET uuc == randSegment(f,
                                      segments[(randSegmentIndex % Len(segments)) + 1])
                         IN  /\ IF PushAdmits(uuc)
                                THEN /\ heapSegments' = heapSegments \cup {uuc.id}
                                     /\ heap' = HeapPush(heap, uuc)
                                     /\ pushOrder' = Append(pushOrder, uuc)
                                     /\ added' = TRUE
                                ELSE /\ UNCHANGED <<heapSegments, heap, pushOrder>>
                                     /\ added' = FALSE
                             /\ pass' = [ passes |-> pass.passes + 1, files |-> files,
                                          file |-> f, pushed |-> uuc ]
                             /\ UNCHANGED <<repairingSegments, nextSegment>>
    /\ UNCHANGED passIn
    /\ UNCHANGED notHeapPass

PassNext ==
    \/ \E randFileIndex \in 0..(NumDirFiles - 1),
          randSegmentIndex \in 0..(NumFileSegments - 1) :
          pushDirToSegmentHeap(randFileIndex, randSegmentIndex)
    \/ pop
    \/ dispatch

-----------------------------------------------------------------------------
(***************************************************************************)
(* uploadAndRepairLoop (uploadheap.go, lines 558-630) with doUploadAndRepair*)
(* (525-556) and uploadLoop (451-520) as one goroutine against the thread  *)
(* manager's stop channel.  The heap is followed by its length only.       *)
(***************************************************************************)

NotStarted ==
    [ pc |-> "idle", heapLen |-> 0, consecutiveSegmentUploads |-> 0,
      rebuildHeapSignal |-> FALSE, afterError |-> "select", afterStop |-> 0 ]

StopNeverSeen(closed) == FALSE

\* case <-sc.tm.StopChan(): the case is ready once the channel is closed.
StopChanReady(closed) == closed

\* The places where the goroutine blocks with the stop channel among the
\* cases: blockUntilOnline (573), the two error sleeps (587-591, 617-621)
\* and the wait for a signal (600-605).
BlockedOnStop == {"blockUntilOnline", "errorSleep", "waitSignal"}

\* ThreadManager.Stop closes the stop channel.
tmStop ==
    /\ ~stopChan
    /\ stopChan' = TRUE
    /\ UNCHANGED repair
    /\ UNCHANGED notRepair

\* Lines 559-563: sc.tm.Add() fails once the manager was stopped.
uploadAndRepairLoop ==
    /\ repair.pc = "idle"
    /\ repair' = [repair EXCEPT !.pc = IF stopChan THEN "returned" ELSE "select"]
    /\ UNCHANGED stopChan
    /\ UNCHANGED notRepair

\* Lines 566-570: the select at the top of the loop.
loopSelect ==
    /\ repair.pc = "select"
    /\ repair' = [repair EXCEPT !.pc = IF StopChanReady(stopChan) THEN "returned"
                                       ELSE "blockUntilOnline"]
    /\ UNCHANGED stopChan
    /\ UNCHANGED notRepair

\* Line 573: blockUntilOnline returns true, the client is online.
blockUntilOnline ==
    /\ repair.pc = "blockUntilOnline"
    /\ repair' = [repair EXCEPT !.pc = "metadata"]
    /\ UNCHANGED stopChan
    /\ UNCHANGED notRepair

\* Lines 582-607: the root metadata: an error, a health that needs no
\* repair, or a repair round.
managedDirectoryMetadata ==
    /\ repair.pc = "metadata"
    /\ \E next \in {"errorSleep", "waitSignal", "doUploadAndRepair"} :
         repair' = [repair EXCEPT !.pc = next, !.afterError = "select"]
    /\ UNCHANGED stopChan
    /\ UNCHANGED notRepair

\* case <-time.After(UploadAndRepairErrorSleepDuration), lines 588 and 618:
\* after the first the loop continues, after the second it sleeps (628).
errorSleepElapsed ==
    /\ repair.pc = "errorSleep"
    /\ repair' = [repair EXCEPT !.pc = repair.afterError]
    /\ UNCHANGED stopChan
    /\ UNCHANGED notRepair

\* case <-sc.uploadHeap.newUploads / repairNeeded, lines 601-602.
signalReceived ==
    /\ repair.pc = "waitSignal"
    /\ repair' = [repair EXCEPT !.pc = "select"]
    /\ UNCHANGED stopChan
    /\ UNCHANGED notRepair

\* case <-sc.tm.StopChan(): return, lines 589-590, 603-604, 619-620, and
\* blockUntilOnline returning false (573-575).
stopChanReceived ==
    /\ repair.pc \in BlockedOnStop
    /\ StopChanReady(stopChan)
    /\ repair' = [repair EXCEPT !.pc = "returned"]
    /\ UNCHANGED stopChan
    /\ UNCHANGED notRepair

\* doUploadAndRepair, lines 525-550: SelectDxFileToFix fails, or segments
\* are pushed (pushDirToSegmentHeap) and uploadLoop is called on a heap
\* that is not empty.
doUploadAndRepair ==
    /\ repair.pc = "doUploadAndRepair"
    /\ \/ repair' = [repair EXCEPT !.pc = "errorSleep", !.afterError = "sleep"]
       \/ \E pushed \in 0..MaxHeapLen :
            /\ repair.heapLen + pushed <= MaxHeapLen
            /\ repair' = [repair EXCEPT
                 !.heapLen = @ + pushed,
                 !.pc = IF repair.heapLen + pushed = 0 THEN "sleep" ELSE "uploadLoop",
                 !.consecutiveSegmentUploads = 0,
                 !.rebuildHeapSignal = FALSE]
    /\ UNCHANGED stopChan
    /\ UNCHANGED notRepair

\* time.After(RebuildSegmentHeapInterval), line 453, fires.
repairTimerFires ==
    /\ repair.pc \in {"uploadLoop", "pop", "prepare"}
    /\ ~repair.rebuildHeapSignal
    /\ repair' = [repair EXCEPT !.rebuildHeapSignal = TRUE]
    /\ UNCHANGED stopChan
    /\ UNCHANGED notRepair

\* uploadLoop, lines 455-461: the select on the stop channel and the timer.
uploadLoopSelect ==
    /\ repair.pc = "uploadLoop"
    /\ repair' = [repair EXCEPT
         !.pc = IF StopChanReady(stopChan) \/ repair.rebuildHeapSignal
                THEN "sleep" ELSE "pop"]
    /\ UNCHANGED stopChan
    /\ UNCHANGED notRepair

\* uploadLoop, lines 463-472: not online, or the heap is empty: return;
\* else the next segment is popped.
uploadLoopNextSegment ==
    /\ repair.pc = "pop"
    /\ \E online \in BOOLEAN :
         IF ~online \/ repair.heapLen = 0
         THEN repair' = [repair EXCEPT !.pc = "sleep"]
         ELSE repair' = [repair EXCEPT !.pc = "prepare", !.heapLen = @ - 1]
    /\ UNCHANGED stopChan
    /\ UNCHANGED notRepair

\* uploadLoop, lines 477-498: too few workers or no memory: the segment is
\* set stuck and the loop continues.
uploadLoopStuck ==
    /\ repair.pc = "prepare"
    /\ repair' = [repair EXCEPT !.pc = "uploadLoop"]
    /\ UNCHANGED stopChan
    /\ UNCHANGED notRepair

\* uploadLoop, lines 490-518: go sc.uploadSegment(uuc), the dispatch; at the
\* limit the heap is emptied, some stuck segments are pushed back and the
\* loop returns.  afterStop counts the dispatches started with the stop
\* channel closed.
uploadLoopDispatch ==
    /\ repair.pc = "prepare"
    /\ \E stuckSegments \in 0..MaxHeapLen :
         /\ stuckSegments <= repair.heapLen
         /\ (repair.consecutiveSegmentUploads + 1 < MaxConsecutiveSegmentUploads
               => stuckSegments = repair.heapLen)
         /\ repair' = [repair EXCEPT
              !.consecutiveSegmentUploads = @ + 1,
              !.afterStop = IF stopChan /\ @ < 2 THEN @ + 1 ELSE @,
              !.heapLen = stuckSegments,
              !.pc = IF repair.consecutiveSegmentUploads + 1 >= MaxConsecutiveSegmentUploads
                     THEN "sleep" ELSE "uploadLoop"]
    /\ UNCHANGED stopChan
    /\ UNCHANGED notRepair

\* Lines 552-556 and 628: the directory metadata is updated,
\* doUploadAndRepair returns and the loop sleeps 20 ms.
sleepElapsed ==
    /\ repair.pc = "sleep"
    /\ repair' = [repair EXCEPT !.pc = "select"]
    /\ UNCHANGED stopChan
    /\ UNCHANGED notRepair

\* The steps the goroutine takes by itself.
RepairSteps ==
    \/ uploadAndRepairLoop
    \/ loopSelect
    \/ managedDirectoryMetadata
    \/ errorSleepElapsed
    \/ stopChanReceived
    \/ doUploadAndRepair
    \/ uploadLoopSelect
    \/ uploadLoopNextSegment
    \/ uploadLoopStuck
    \/ uploadLoopDispatch
    \/ sleepElapsed

RepairNext ==
    \/ tmStop
    \/ blockUntilOnline
    \/ signalReceived
    \/ repairTimerFires
    \/ RepairSteps

-----------------------------------------------------------------------------
(***************************************************************************)
(* cm.failedRenewCount over the ticks of the maintenance: the renew lists  *)
(* of checkForContractRenew, resetFailedRenews (contractrenew.go, lines    *)
(* 89-112) and the renewals that fail (lines 196-203 and 259-287).         *)
(***************************************************************************)

\* The values of failedRenewCount: below, at and above the number of fails
\* before replacement.
RenewCounts == {9, 10}

\* A Go map from contract ids to counts.
CountMaps == UNION { [ids -> RenewCounts] : ids \in SUBSET ContractIDs }

\* The ids of s, in increasing order.
RECURSIVE SortedIDs(_)
SortedIDs(s) ==
    IF s = {} THEN << >>
    ELSE LET m == CHOOSE x \in s : \A y \in s : x <= y
         IN  <<m>> \o SortedIDs(s \ {m})

\* closeToExpireRenews and insufficientFundingRenews as checkForContractRenew
\* builds them: a contract is in at most one of them (line 64).
RenewLists ==
    { l \in { [ closeToExpireRenews |-> SortedIDs(c), insufficientFundingRenews |-> SortedIDs(i) ] :
                c \in SUBSET ContractIDs, i \in SUBSET ContractIDs } :
        Range(l.closeToExpireRenews) \cap Range(l.insufficientFundingRenews) = {} }

\* A tick of the maintenance.  status, failed and replaced follow the first
\* contract, whose renewals all fail: its status, how many of its renewals
\* failed so far, and whether handleRenewFailed took lines 266-283 at the last.
NoTick ==
    [ phase |-> "idle", closeToExpireRenews |-> << >>,
      insufficientFundingRenews |-> << >>, late |-> FALSE,
      status |-> StatusGood, before |-> EmptyMap, failed |-> 0,
      replaced |-> FALSE ]

\* numFailed, _ := cm.failedRenewCount[id] (line 264): 0 for an absent key.
NumFailed(counts, id) == IF id \in DOMAIN counts THEN counts[id] ELSE 0

\* Lines 94-99 (and 102-107): the entries of counts whose id is in records,
\* from position k on, written into filtered.
RECURSIVE copyFailedRenews(_, _, _, _)
copyFailedRenews(counts, records, k, filtered) ==
    IF k > Len(records) THEN filtered
    ELSE IF records[k] \in DOMAIN counts
    THEN copyFailedRenews(counts, records, k + 1,
                          MapPut(filtered, records[k], counts[records[k]]))
    ELSE copyFailedRenews(counts, records, k + 1, filtered)

CloseToExpireOnly(counts, closeToExpireRenews, insufficientFundingRenews) ==
    copyFailedRenews(counts, closeToExpireRenews, 1, EmptyMap)

\* Lines 91-107: filteredFailedRenews.
filteredFailedRenews(counts, closeToExpireRenews, insufficientFundingRenews) ==
    copyFailedRenews(counts, insufficientFundingRenews, 1,
        copyFailedRenews(counts, closeToExpireRenews, 1, EmptyMap))

\* A tick starts: checkForContractRenew returns its two lists; late says
\* whether the height is within RenewWindow/2 of the contracts' EndHeight.
tickStarts(lists, late) ==
    /\ tick.phase = "idle"
    /\ tick' = [tick EXCEPT !.phase = "classified",
                            !.closeToExpireRenews = lists.closeToExpireRenews,
                            !.insufficientFundingRenews = lists.insufficientFundingRenews,
                            !.late = late]
    /\ UNCHANGED failedRenewCount
    /\ UNCHANGED notTick

\* resetFailedRenews(closeToExpireRenews, insufficientFundingRenews), under
\* cm.lock.
resetFailedRenews ==
    /\ tick.phase = "classified"
    /\ failedRenewCount' = filteredFailedRenews(failedRenewCount,
                               tick.closeToExpireRenews, tick.insufficientFundingRenews)
    /\ tick' = [tick EXCEPT !.phase = "reset", !.before = failedRenewCount]
    /\ UNCHANGED notTick

\* contractRenewStart on the record of the first contract, once in a tick,
\* the renewal failing: lines 196-203 with handleRenewFailed (259-287).
renewalFails(updateOK) ==
    /\ tick.phase = "reset"
    /\ 1 \in Range(tick.closeToExpireRenews) \cup Range(tick.insufficientFundingRenews)
    /\ tick.status.RenewAbility
    /\ tick.failed <= consecutiveRenewFailsBeforeReplacement
    /\ LET f == [ blockHeight |-> IF tick.late THEN U64(10) ELSE U64(0),
                  RenewWindow |-> U64(2), EndHeight |-> U64(5),
                  numFailed |-> NumFailed(failedRenewCount, 1),
                  stats |-> tick.status, updateOK |-> updateOK ]
       IN  tick' = [tick EXCEPT
               !.phase = "renewed",
               !.status = handleRenewFailed(f).status,
               !.failed = @ + 1,
               !.replaced = handleRenewFailed(f).saysCanceled]
    /\ UNCHANGED failedRenewCount
    /\ UNCHANGED notTick

\* The tick is over; the next one starts from the lists of its own.
tickEnds ==
    /\ tick.phase \in {"reset", "renewed"}
    /\ tick' = [tick EXCEPT !.phase = "idle", !.closeToExpireRenews = << >>,
                            !.insufficientFundingRenews = << >>, !.before = EmptyMap]
    /\ UNCHANGED failedRenewCount
    /\ UNCHANGED notTick

TickNext ==
    \/ \E lists \in RenewLists, late \in BOOLEAN : tickStarts(lists, late)
    \/ resetFailedRenews
    \/ \E updateOK \in BOOLEAN : renewalFails(updateOK)
    \/ tickEnds

-----------------------------------------------------------------------------
(***************************************************************************)
(* ParsePrecompileContractTxArgs (internal/ethapi/                         *)
(* precompiled_contract_tx_api.go, lines 440-515) field by field: two      *)
(* calls are given the same fields map.  `for key, value := range fields`  *)
(* visits the keys of a Go map in an order that is not specified and that  *)
(* differs from one range statement to the next.                           *)
(***************************************************************************)

\* A key the map does not hold, and a value that is not a string.
Absent == [ kind |-> "absent", n |-> 0 ]
NotString == [ kind |-> "notString", n |-> 0 ]

\* The string that spells the number n.
Str(n) == [ kind |-> "string", n |-> n ]

\* The values of the fields.  "ratio": the number its string spells (-1 and
\* 256 are no uint8).  "deposit": a currency amount, -1 for a string that
\* ParseCurrency rejects.  "candidates": the number of comma-separated
\* entries, for a string.  "other": a key that is none of the four.
RatioValues == {NotString, Str(-1), Str(50), Str(100), Str(101), Str(256)}
FromValues == {NotString, Str(1)}
DepositStrings == {NotString, Str(-1), Str(10)}
CandidateStrings == {NotString, Str(1), Str(MaxVoteCount + 1)}

FieldKeys == {"ratio", "from", "deposit", "candidates", "other"}

FieldMaps ==
    [ ratio : RatioValues \cup {Absent}, from : FromValues \cup {Absent},
      deposit : DepositStrings \cup {Absent},
      candidates : CandidateStrings \cup {Absent}, other : {Absent, Str(1)} ]

\* The keys the map holds, and the orders in which a range visits them.
KeysOf(fields) == { key \in FieldKeys : fields[key] # Absent }

VisitOrders(fields) ==
    { order \in [1..Cardinality(KeysOf(fields)) -> KeysOf(fields)] :
        \A i, j \in DOMAIN order : i # j => order[i] # order[j] }

\* strconv.ParseUint(str, 10, 8) succeeds.
IsUint8(n) == n >= 0 /\ n < 2 ^ 8

\* The locals before the loop: data nil, from the zero address, deposit the
\* zero BigInt.
ParseLocals ==
    [ err |-> "nil", data |-> [ kind |-> "nil", n |-> 0 ], from |-> ZeroAddress,
      deposit |-> 0 ]

\* return nil, err
ParseError(err) == [ParseLocals EXCEPT !.err = err]

\* One round of the loop, lines 445-510, on the key and its value.
parseField(acc, key, value) ==
    CASE key = "ratio" ->
            IF value = NotString THEN ParseError("ErrRatioNotStringFormat")
            ELSE IF ~IsUint8(value.n) THEN ParseError("ErrParseStringToUint")
            ELSE IF value.n > 100 THEN ParseError("ErrInvalidAwardDistributionRatio")
            ELSE [acc EXCEPT !.data = [ kind |-> "ratio", n |-> value.n ]]
      [] key = "from" ->
            IF value = NotString THEN ParseError("ErrFromNotStringFormat")
            ELSE [acc EXCEPT !.from = value.n]
      [] key = "deposit" ->
            IF value = NotString THEN ParseError("ErrDepositNotStringFormat")
            ELSE IF value.n < 0 THEN ParseError("ErrParseStringToBigInt")
            ELSE [acc EXCEPT !.deposit = value.n]
      [] key = "candidates" ->
            IF value = NotString THEN ParseError("ErrCandidatesNotStringFormat")
            ELSE IF value.n > MaxVoteCount THEN ParseError("ErrBeyondMaxVoteSize")
            ELSE [acc EXCEPT !.data = [ kind |-> "rlp", n |-> value.n ]]
      [] OTHER -> ParseError("ErrUnknownParameter")

\* The loop from position k of the order; an error returns at once.
RECURSIVE parseFields(_, _, _, _)
parseFields(fields, order, k, acc) ==
    IF k > Len(order) THEN acc
    ELSE LET next == parseField(acc, order[k], fields[order[k]])
         IN  IF next.err # "nil" THEN next
             ELSE parseFields(fields, order, k + 1, next)

NotParsed == [ done |-> FALSE, result |-> ParseLocals ]

\* A call of ParsePrecompileContractTxArgs on the fields.
parsePrecompileContractTxArgs(call) ==
    /\ ~parseOut[call].done
    /\ \E order \in VisitOrders(parseIn) :
          parseOut' = [parseOut EXCEPT
              ![call] = [ done |-> TRUE,
                          result |-> parseFields(parseIn, order, 1, ParseLocals) ]]
    /\ UNCHANGED parseIn
    /\ UNCHANGED notParse

ParseNext == \E call \in Runs : parsePrecompileContractTxArgs(call)

-----------------------------------------------------------------------------
(***************************************************************************)
(* The specifications: one per subsystem.                                  *)
(***************************************************************************)
\* The contract the variables of checkForContractRenew hold in the other
\* specifications.
IdleCheckInput ==
    [ exists |-> FALSE, Filtered |-> FALSE, RenewAbility |-> FALSE,
      blockHeight |-> U64(0), RenewWindow |-> U64(1), EndHeight |-> U64(1),
      ClientBalance |-> 0, TotalCost |-> 600, totalSectorCost |-> 0 ]

\* The failed renewal the variables of handleRenewFailed hold in the other
\* specifications.
IdleFailInput ==
    [ blockHeight |-> U64(0), RenewWindow |-> U64(1), EndHeight |-> U64(1),
      numFailed |-> 0, stats |-> StatusGood, updateOK |-> TRUE ]

\* No records to renew: the variables of prepareContractRenew in the other
\* specifications.
IdlePrepareInput == [ renewRecords |-> <<>>, clientRemainingFund |-> 0 ]

\* The arguments the variables of the drafts hold in the other specifications.
IdleDraftInput ==
    [ kind |-> "create", extended |-> FALSE, args |-> IdlePayInput,
      clientPayout |-> 0, hostPayout |-> 0, calcErr |-> TRUE ]

\* The request the variables of the dpos validation hold in the other
\* specifications.
IdleDposInput ==
    [ op |-> "applyCandidate", balance |-> 0, voteDeposit |-> 0,
      candidateDeposit |-> 0, deposit |-> 0, candidates |-> 0 ]

\* The selection the lucky wheel holds in the other specifications.
IdleWheelInput == [ entries |-> << >>, seed |-> 0, target |-> 0 ]

\* The segment the variables of createUnfinishedSegments hold in the other
\* specifications.
IdleSegmentInput ==
    [ hosts |-> {}, sectors |-> [slot \in 1..NumSectors |-> << >>],
      GoodForRenew |-> [h \in SectorHosts |-> FALSE] ]

\* The file the variables of the segment filter hold in the other
\* specifications.
IdleBuildInput ==
    [ target |-> "targetUnstuckSegments", workers |-> 0, localPath |-> FALSE,
      hosts |-> {}, GoodForRenew |-> [h \in SectorHosts |-> FALSE],
      segments |-> << >> ]

\* An empty directory: the variables of the stuck-repair pass in the other
\* specifications.
IdlePassInput ==
    [ workers |-> 0, localPath |-> FALSE, files |-> << >> ]

\* The empty fields map: the variables of the parser in the other
\* specifications.
IdleFieldMap ==
    [ ratio |-> Absent, from |-> Absent, deposit |-> Absent,
      candidates |-> Absent, other |-> Absent ]

\* An empty upload heap; the other subsystems idle.
HeapInit ==
    /\ heap = <<>>
    /\ heapSegments = {}
    /\ repairingSegments = {}
    /\ nextSegment = NoSegment
    /\ added = FALSE
    /\ pushOrder = <<>>
    /\ chk = IdleCheckInput
    /\ bucket = Unchecked
    /\ contracts = {}
    /\ status = [ id \in ContractIDs |-> StatusGood ]
    /\ otherHolds = {}
    /\ expiredContracts = EmptyMap
    /\ renewedFrom = EmptyMap
    /\ renewedTo = EmptyMap
    /\ renewing = {}
    /\ pc = "idle"
    /\ rn = NoRenewal
    /\ fail = IdleFailInput
    /\ failOut = NotFailed
    /\ prepIn = IdlePrepareInput
    /\ prep = PrepareStart
    /\ payIn = IdlePayInput
    /\ payOut = NotCalled
    /\ draftIn = IdleDraftInput
    /\ draft = NoDraft
    /\ neg = NoNegotiation
    /\ interactions = [failed |-> 0, successful |-> 0]
    /\ negCount = 0
    /\ dposIn = IdleDposInput
    /\ dposOut = NotChecked
    /\ sendCalls = [c \in Callers |-> NoCall]
    /\ nonceLock = [a \in Addrs |-> 0]
    /\ poolNonce = [a \in Addrs |-> 0]
    /\ txPool = << >>
    /\ callCount = 0
    /\ storageHostTree = [id \in HostIDs |-> NoHost]
    /\ filteredTree = {}
    /\ filteredTreeShared = TRUE
    /\ filterMode = "DisableFilter"
    /\ filteredHosts = {}
    /\ ipViolationCheck = FALSE
    /\ initialScanFinished = 0
    /\ hostCall = NoHostCall
    /\ wheelIn = IdleWheelInput
    /\ wheel = [run \in Runs |-> newLuckyWheel(IdleWheelInput)]
    /\ loop = NoLoop
    /\ rebuildHeapSignal = FALSE
    /\ segIn = IdleSegmentInput
    /\ segOut = NotBuilt
    /\ buildIn = IdleBuildInput
    /\ buildOut = NothingBuilt
    /\ passIn = IdlePassInput
    /\ pass = NoPass
    /\ stopChan = FALSE
    /\ repair = NotStarted
    /\ failedRenewCount = EmptyMap
    /\ tick = NoTick
    /\ parseIn = IdleFieldMap
    /\ parseOut = [call \in Runs |-> NotParsed]

\* Any active contract with its host and any height and rent payment, not
\* yet classified; the other subsystems idle.
CheckInit ==
    /\ chk \in CheckInputs
    /\ bucket = Unchecked
    /\ heap = <<>>
    /\ heapSegments = {}
    /\ repairingSegments = {}
    /\ nextSegment = NoSegment
    /\ added = FALSE
    /\ pushOrder = <<>>
    /\ contracts = {}
    /\ status = [ id \in ContractIDs |-> StatusGood ]
    /\ otherHolds = {}
    /\ expiredContracts = EmptyMap
    /\ renewedFrom = EmptyMap
    /\ renewedTo = EmptyMap
    /\ renewing = {}
    /\ pc = "idle"
    /\ rn = NoRenewal
    /\ fail = IdleFailInput
    /\ failOut = NotFailed
    /\ prepIn = IdlePrepareInput
    /\ prep = PrepareStart
    /\ payIn = IdlePayInput
    /\ payOut = NotCalled
    /\ draftIn = IdleDraftInput
    /\ draft = NoDraft
    /\ neg = NoNegotiation
    /\ interactions = [failed |-> 0, successful |-> 0]
    /\ negCount = 0
    /\ dposIn = IdleDposInput
    /\ dposOut = NotChecked
    /\ sendCalls = [c \in Callers |-> NoCall]
    /\ nonceLock = [a \in Addrs |-> 0]
    /\ poolNonce = [a \in Addrs |-> 0]
    /\ txPool = << >>
    /\ callCount = 0
    /\ storageHostTree = [id \in HostIDs |-> NoHost]
    /\ filteredTree = {}
    /\ filteredTreeShared = TRUE
    /\ filterMode = "DisableFilter"
    /\ filteredHosts = {}
    /\ ipViolationCheck = FALSE
    /\ initialScanFinished = 0
    /\ hostCall = NoHostCall
    /\ wheelIn = IdleWheelInput
    /\ wheel = [run \in Runs |-> newLuckyWheel(IdleWheelInput)]
    /\ loop = NoLoop
    /\ rebuildHeapSignal = FALSE
    /\ segIn = IdleSegmentInput
    /\ segOut = NotBuilt
    /\ buildIn = IdleBuildInput
    /\ buildOut = NothingBuilt
    /\ passIn = IdlePassInput
    /\ pass = NoPass
    /\ stopChan = FALSE
    /\ repair = NotStarted
    /\ failedRenewCount = EmptyMap
    /\ tick = NoTick
    /\ parseIn = IdleFieldMap
    /\ parseOut = [call \in Runs |-> NotParsed]

\* Any set of active contracts with any statuses, nothing renewed or expired
\* yet, no renewal under way; the other subsystems idle.
RenewInit ==
    /\ contracts \in SUBSET ContractIDs
    /\ status \in [ContractIDs -> Statuses]
    /\ otherHolds = {}
    /\ expiredContracts = EmptyMap
    /\ renewedFrom = EmptyMap
    /\ renewedTo = EmptyMap
    /\ renewing = {}
    /\ pc = "idle"
    /\ rn = NoRenewal
    /\ heap = <<>>
    /\ heapSegments = {}
    /\ repairingSegments = {}
    /\ nextSegment = NoSegment
    /\ added = FALSE
    /\ pushOrder = <<>>
    /\ chk = IdleCheckInput
    /\ bucket = Unchecked
    /\ fail = IdleFailInput
    /\ failOut = NotFailed
    /\ prepIn = IdlePrepareInput
    /\ prep = PrepareStart
    /\ payIn = IdlePayInput
    /\ payOut = NotCalled
    /\ draftIn = IdleDraftInput
    /\ draft = NoDraft
    /\ neg = NoNegotiation
    /\ interactions = [failed |-> 0, successful |-> 0]
    /\ negCount = 0
    /\ dposIn = IdleDposInput
    /\ dposOut = NotChecked
    /\ sendCalls = [c \in Callers |-> NoCall]
    /\ nonceLock = [a \in Addrs |-> 0]
    /\ poolNonce = [a \in Addrs |-> 0]
    /\ txPool = << >>
    /\ callCount = 0
    /\ storageHostTree = [id \in HostIDs |-> NoHost]
    /\ filteredTree = {}
    /\ filteredTreeShared = TRUE
    /\ filterMode = "DisableFilter"
    /\ filteredHosts = {}
    /\ ipViolationCheck = FALSE
    /\ initialScanFinished = 0
    /\ hostCall = NoHostCall
    /\ wheelIn = IdleWheelInput
    /\ wheel = [run \in Runs |-> newLuckyWheel(IdleWheelInput)]
    /\ loop = NoLoop
    /\ rebuildHeapSignal = FALSE
    /\ segIn = IdleSegmentInput
    /\ segOut = NotBuilt
    /\ buildIn = IdleBuildInput
    /\ buildOut = NothingBuilt
    /\ passIn = IdlePassInput
    /\ pass = NoPass
    /\ stopChan = FALSE
    /\ repair = NotStarted
    /\ failedRenewCount = EmptyMap
    /\ tick = NoTick
    /\ parseIn = IdleFieldMap
    /\ parseOut = [call \in Runs |-> NotParsed]

\* Any failed renewal, not yet handled; the other subsystems idle.
FailInit ==
    /\ fail \in FailInputs
    /\ failOut = NotFailed
    /\ heap = <<>>
    /\ heapSegments = {}
    /\ repairingSegments = {}
    /\ nextSegment = NoSegment
    /\ added = FALSE
    /\ pushOrder = <<>>
    /\ chk = IdleCheckInput
    /\ bucket = Unchecked
    /\ contracts = {}
    /\ status = [ id \in ContractIDs |-> StatusGood ]
    /\ otherHolds = {}
    /\ expiredContracts = EmptyMap
    /\ renewedFrom = EmptyMap
    /\ renewedTo = EmptyMap
    /\ renewing = {}
    /\ pc = "idle"
    /\ rn = NoRenewal
    /\ prepIn = IdlePrepareInput
    /\ prep = PrepareStart
    /\ payIn = IdlePayInput
    /\ payOut = NotCalled
    /\ draftIn = IdleDraftInput
    /\ draft = NoDraft
    /\ neg = NoNegotiation
    /\ interactions = [failed |-> 0, successful |-> 0]
    /\ negCount = 0
    /\ dposIn = IdleDposInput
    /\ dposOut = NotChecked
    /\ sendCalls = [c \in Callers |-> NoCall]
    /\ nonceLock = [a \in Addrs |-> 0]
    /\ poolNonce = [a \in Addrs |-> 0]
    /\ txPool = << >>
    /\ callCount = 0
    /\ storageHostTree = [id \in HostIDs |-> NoHost]
    /\ filteredTree = {}
    /\ filteredTreeShared = TRUE
    /\ filterMode = "DisableFilter"
    /\ filteredHosts = {}
    /\ ipViolationCheck = FALSE
    /\ initialScanFinished = 0
    /\ hostCall = NoHostCall
    /\ wheelIn = IdleWheelInput
    /\ wheel = [run \in Runs |-> newLuckyWheel(IdleWheelInput)]
    /\ loop = NoLoop
    /\ rebuildHeapSignal = FALSE
    /\ segIn = IdleSegmentInput
    /\ segOut = NotBuilt
    /\ buildIn = IdleBuildInput
    /\ buildOut = NothingBuilt
    /\ passIn = IdlePassInput
    /\ pass = NoPass
    /\ stopChan = FALSE
    /\ repair = NotStarted
    /\ failedRenewCount = EmptyMap
    /\ tick = NoTick
    /\ parseIn = IdleFieldMap
    /\ parseOut = [call \in Runs |-> NotParsed]

\* Any list of renew records and any fund, the loop not yet entered; the
\* other subsystems idle.
PrepareInit ==
    /\ prepIn \in PrepareInputs
    /\ prep = PrepareStart
    /\ heap = <<>>
    /\ heapSegments = {}
    /\ repairingSegments = {}
    /\ nextSegment = NoSegment
    /\ added = FALSE
    /\ pushOrder = <<>>
    /\ chk = IdleCheckInput
    /\ bucket = Unchecked
    /\ contracts = {}
    /\ status = [ id \in ContractIDs |-> StatusGood ]
    /\ otherHolds = {}
    /\ expiredContracts = EmptyMap
    /\ renewedFrom = EmptyMap
    /\ renewedTo = EmptyMap
    /\ renewing = {}
    /\ pc = "idle"
    /\ rn = NoRenewal
    /\ fail = IdleFailInput
    /\ failOut = NotFailed
    /\ payIn = IdlePayInput
    /\ payOut = NotCalled
    /\ draftIn = IdleDraftInput
    /\ draft = NoDraft
    /\ neg = NoNegotiation
    /\ interactions = [failed |-> 0, successful |-> 0]
    /\ negCount = 0
    /\ dposIn = IdleDposInput
    /\ dposOut = NotChecked
    /\ sendCalls = [c \in Callers |-> NoCall]
    /\ nonceLock = [a \in Addrs |-> 0]
    /\ poolNonce = [a \in Addrs |-> 0]
    /\ txPool = << >>
    /\ callCount = 0
    /\ storageHostTree = [id \in HostIDs |-> NoHost]
    /\ filteredTree = {}
    /\ filteredTreeShared = TRUE
    /\ filterMode = "DisableFilter"
    /\ filteredHosts = {}
    /\ ipViolationCheck = FALSE
    /\ initialScanFinished = 0
    /\ hostCall = NoHostCall
    /\ wheelIn = IdleWheelInput
    /\ wheel = [run \in Runs |-> newLuckyWheel(IdleWheelInput)]
    /\ loop = NoLoop
    /\ rebuildHeapSignal = FALSE
    /\ segIn = IdleSegmentInput
    /\ segOut = NotBuilt
    /\ buildIn = IdleBuildInput
    /\ buildOut = NothingBuilt
    /\ passIn = IdlePassInput
    /\ pass = NoPass
    /\ stopChan = FALSE
    /\ repair = NotStarted
    /\ failedRenewCount = EmptyMap
    /\ tick = NoTick
    /\ parseIn = IdleFieldMap
    /\ parseOut = [call \in Runs |-> NotParsed]

\* Any arguments of ClientPayoutsPreTax, not yet called; the other subsystems
\* idle.
PayInit ==
    /\ payIn \in PayInputs
    /\ payOut = NotCalled
    /\ heap = <<>>
    /\ heapSegments = {}
    /\ repairingSegments = {}
    /\ nextSegment = NoSegment
    /\ added = FALSE
    /\ pushOrder = <<>>
    /\ chk = IdleCheckInput
    /\ bucket = Unchecked
    /\ contracts = {}
    /\ status = [ id \in ContractIDs |-> StatusGood ]
    /\ otherHolds = {}
    /\ expiredContracts = EmptyMap
    /\ renewedFrom = EmptyMap
    /\ renewedTo = EmptyMap
    /\ renewing = {}
    /\ pc = "idle"
    /\ rn = NoRenewal
    /\ fail = IdleFailInput
    /\ failOut = NotFailed
    /\ prepIn = IdlePrepareInput
    /\ prep = PrepareStart
    /\ draftIn = IdleDraftInput
    /\ draft = NoDraft
    /\ neg = NoNegotiation
    /\ interactions = [failed |-> 0, successful |-> 0]
    /\ negCount = 0
    /\ dposIn = IdleDposInput
    /\ dposOut = NotChecked
    /\ sendCalls = [c \in Callers |-> NoCall]
    /\ nonceLock = [a \in Addrs |-> 0]
    /\ poolNonce = [a \in Addrs |-> 0]
    /\ txPool = << >>
    /\ callCount = 0
    /\ storageHostTree = [id \in HostIDs |-> NoHost]
    /\ filteredTree = {}
    /\ filteredTreeShared = TRUE
    /\ filterMode = "DisableFilter"
    /\ filteredHosts = {}
    /\ ipViolationCheck = FALSE
    /\ initialScanFinished = 0
    /\ hostCall = NoHostCall
    /\ wheelIn = IdleWheelInput
    /\ wheel = [run \in Runs |-> newLuckyWheel(IdleWheelInput)]
    /\ loop = NoLoop
    /\ rebuildHeapSignal = FALSE
    /\ segIn = IdleSegmentInput
    /\ segOut = NotBuilt
    /\ buildIn = IdleBuildInput
    /\ buildOut = NothingBuilt
    /\ passIn = IdlePassInput
    /\ pass = NoPass
    /\ stopChan = FALSE
    /\ repair = NotStarted
    /\ failedRenewCount = EmptyMap
    /\ tick = NoTick
    /\ parseIn = IdleFieldMap
    /\ parseOut = [call \in Runs |-> NotParsed]

\* Any arguments of a draft, nothing drafted yet; the other subsystems idle.
DraftInit ==
    /\ draftIn \in DraftInputs
    /\ draft = NoDraft
    /\ heap = <<>>
    /\ heapSegments = {}
    /\ repairingSegments = {}
    /\ nextSegment = NoSegment
    /\ added = FALSE
    /\ pushOrder = <<>>
    /\ chk = IdleCheckInput
    /\ bucket = Unchecked
    /\ contracts = {}
    /\ status = [ id \in ContractIDs |-> StatusGood ]
    /\ otherHolds = {}
    /\ expiredContracts = EmptyMap
    /\ renewedFrom = EmptyMap
    /\ renewedTo = EmptyMap
    /\ renewing = {}
    /\ pc = "idle"
    /\ rn = NoRenewal
    /\ fail = IdleFailInput
    /\ failOut = NotFailed
    /\ prepIn = IdlePrepareInput
    /\ prep = PrepareStart
    /\ payIn = IdlePayInput
    /\ payOut = NotCalled
    /\ neg = NoNegotiation
    /\ interactions = [failed |-> 0, successful |-> 0]
    /\ negCount = 0
    /\ dposIn = IdleDposInput
    /\ dposOut = NotChecked
    /\ sendCalls = [c \in Callers |-> NoCall]
    /\ nonceLock = [a \in Addrs |-> 0]
    /\ poolNonce = [a \in Addrs |-> 0]
    /\ txPool = << >>
    /\ callCount = 0
    /\ storageHostTree = [id \in HostIDs |-> NoHost]
    /\ filteredTree = {}
    /\ filteredTreeShared = TRUE
    /\ filterMode = "DisableFilter"
    /\ filteredHosts = {}
    /\ ipViolationCheck = FALSE
    /\ initialScanFinished = 0
    /\ hostCall = NoHostCall
    /\ wheelIn = IdleWheelInput
    /\ wheel = [run \in Runs |-> newLuckyWheel(IdleWheelInput)]
    /\ loop = NoLoop
    /\ rebuildHeapSignal = FALSE
    /\ segIn = IdleSegmentInput
    /\ segOut = NotBuilt
    /\ buildIn = IdleBuildInput
    /\ buildOut = NothingBuilt
    /\ passIn = IdlePassInput
    /\ pass = NoPass
    /\ stopChan = FALSE
    /\ repair = NotStarted
    /\ failedRenewCount = EmptyMap
    /\ tick = NoTick
    /\ parseIn = IdleFieldMap
    /\ parseOut = [call \in Runs |-> NotParsed]

\* No negotiation yet and no interaction counted; the other subsystems idle.
NegotiateInit ==
    /\ neg = NoNegotiation
    /\ interactions = [failed |-> 0, successful |-> 0]
    /\ negCount = 0
    /\ heap = <<>>
    /\ heapSegments = {}
    /\ repairingSegments = {}
    /\ nextSegment = NoSegment
    /\ added = FALSE
    /\ pushOrder = <<>>
    /\ chk = IdleCheckInput
    /\ bucket = Unchecked
    /\ contracts = {}
    /\ status = [ id \in ContractIDs |-> StatusGood ]
    /\ otherHolds = {}
    /\ expiredContracts = EmptyMap
    /\ renewedFrom = EmptyMap
    /\ renewedTo = EmptyMap
    /\ renewing = {}
    /\ pc = "idle"
    /\ rn = NoRenewal
    /\ fail = IdleFailInput
    /\ failOut = NotFailed
    /\ prepIn = IdlePrepareInput
    /\ prep = PrepareStart
    /\ payIn = IdlePayInput
    /\ payOut = NotCalled
    /\ draftIn = IdleDraftInput
    /\ draft = NoDraft
    /\ dposIn = IdleDposInput
    /\ dposOut = NotChecked
    /\ sendCalls = [c \in Callers |-> NoCall]
    /\ nonceLock = [a \in Addrs |-> 0]
    /\ poolNonce = [a \in Addrs |-> 0]
    /\ txPool = << >>
    /\ callCount = 0
    /\ storageHostTree = [id \in HostIDs |-> NoHost]
    /\ filteredTree = {}
    /\ filteredTreeShared = TRUE
    /\ filterMode = "DisableFilter"
    /\ filteredHosts = {}
    /\ ipViolationCheck = FALSE
    /\ initialScanFinished = 0
    /\ hostCall = NoHostCall
    /\ wheelIn = IdleWheelInput
    /\ wheel = [run \in Runs |-> newLuckyWheel(IdleWheelInput)]
    /\ loop = NoLoop
    /\ rebuildHeapSignal = FALSE
    /\ segIn = IdleSegmentInput
    /\ segOut = NotBuilt
    /\ buildIn = IdleBuildInput
    /\ buildOut = NothingBuilt
    /\ passIn = IdlePassInput
    /\ pass = NoPass
    /\ stopChan = FALSE
    /\ repair = NotStarted
    /\ failedRenewCount = EmptyMap
    /\ tick = NoTick
    /\ parseIn = IdleFieldMap
    /\ parseOut = [call \in Runs |-> NotParsed]

\* Any dpos request of any account, not yet validated; the other subsystems
\* idle.
DposInit ==
    /\ dposIn \in DposInputs
    /\ dposOut = NotChecked
    /\ heap = <<>>
    /\ heapSegments = {}
    /\ repairingSegments = {}
    /\ nextSegment = NoSegment
    /\ added = FALSE
    /\ pushOrder = <<>>
    /\ chk = IdleCheckInput
    /\ bucket = Unchecked
    /\ contracts = {}
    /\ status = [ id \in ContractIDs |-> StatusGood ]
    /\ otherHolds = {}
    /\ expiredContracts = EmptyMap
    /\ renewedFrom = EmptyMap
    /\ renewedTo = EmptyMap
    /\ renewing = {}
    /\ pc = "idle"
    /\ rn = NoRenewal
    /\ fail = IdleFailInput
    /\ failOut = NotFailed
    /\ prepIn = IdlePrepareInput
    /\ prep = PrepareStart
    /\ payIn = IdlePayInput
    /\ payOut = NotCalled
    /\ draftIn = IdleDraftInput
    /\ draft = NoDraft
    /\ neg = NoNegotiation
    /\ interactions = [failed |-> 0, successful |-> 0]
    /\ negCount = 0
    /\ sendCalls = [c \in Callers |-> NoCall]
    /\ nonceLock = [a \in Addrs |-> 0]
    /\ poolNonce = [a \in Addrs |-> 0]
    /\ txPool = << >>
    /\ callCount = 0
    /\ storageHostTree = [id \in HostIDs |-> NoHost]
    /\ filteredTree = {}
    /\ filteredTreeShared = TRUE
    /\ filterMode = "DisableFilter"
    /\ filteredHosts = {}
    /\ ipViolationCheck = FALSE
    /\ initialScanFinished = 0
    /\ hostCall = NoHostCall
    /\ wheelIn = IdleWheelInput
    /\ wheel = [run \in Runs |-> newLuckyWheel(IdleWheelInput)]
    /\ loop = NoLoop
    /\ rebuildHeapSignal = FALSE
    /\ segIn = IdleSegmentInput
    /\ segOut = NotBuilt
    /\ buildIn = IdleBuildInput
    /\ buildOut = NothingBuilt
    /\ passIn = IdlePassInput
    /\ pass = NoPass
    /\ stopChan = FALSE
    /\ repair = NotStarted
    /\ failedRenewCount = EmptyMap
    /\ tick = NoTick
    /\ parseIn = IdleFieldMap
    /\ parseOut = [call \in Runs |-> NotParsed]

\* No send operation running, every lock free, an empty pool; the other
\* subsystems idle.
SendInit ==
    /\ sendCalls = [c \in Callers |-> NoCall]
    /\ nonceLock = [a \in Addrs |-> 0]
    /\ poolNonce = [a \in Addrs |-> 0]
    /\ txPool = << >>
    /\ callCount = 0
    /\ heap = <<>>
    /\ heapSegments = {}
    /\ repairingSegments = {}
    /\ nextSegment = NoSegment
    /\ added = FALSE
    /\ pushOrder = <<>>
    /\ chk = IdleCheckInput
    /\ bucket = Unchecked
    /\ contracts = {}
    /\ status = [ id \in ContractIDs |-> StatusGood ]
    /\ otherHolds = {}
    /\ expiredContracts = EmptyMap
    /\ renewedFrom = EmptyMap
    /\ renewedTo = EmptyMap
    /\ renewing = {}
    /\ pc = "idle"
    /\ rn = NoRenewal
    /\ fail = IdleFailInput
    /\ failOut = NotFailed
    /\ prepIn = IdlePrepareInput
    /\ prep = PrepareStart
    /\ payIn = IdlePayInput
    /\ payOut = NotCalled
    /\ draftIn = IdleDraftInput
    /\ draft = NoDraft
    /\ neg = NoNegotiation
    /\ interactions = [failed |-> 0, successful |-> 0]
    /\ negCount = 0
    /\ dposIn = IdleDposInput
    /\ dposOut = NotChecked
    /\ storageHostTree = [id \in HostIDs |-> NoHost]
    /\ filteredTree = {}
    /\ filteredTreeShared = TRUE
    /\ filterMode = "DisableFilter"
    /\ filteredHosts = {}
    /\ ipViolationCheck = FALSE
    /\ initialScanFinished = 0
    /\ hostCall = NoHostCall
    /\ wheelIn = IdleWheelInput
    /\ wheel = [run \in Runs |-> newLuckyWheel(IdleWheelInput)]
    /\ loop = NoLoop
    /\ rebuildHeapSignal = FALSE
    /\ segIn = IdleSegmentInput
    /\ segOut = NotBuilt
    /\ buildIn = IdleBuildInput
    /\ buildOut = NothingBuilt
    /\ passIn = IdlePassInput
    /\ pass = NoPass
    /\ stopChan = FALSE
    /\ repair = NotStarted
    /\ failedRenewCount = EmptyMap
    /\ tick = NoTick
    /\ parseIn = IdleFieldMap
    /\ parseOut = [call \in Runs |-> NotParsed]

\* Any pool of hosts under any filter, the initial scan finished, no query
\* made yet; the other subsystems idle.
HostQueryInit ==
    /\ storageHostTree \in [HostIDs -> {NoHost} \cup HostInfos]
    /\ filterMode \in FilterModes
    /\ filteredHosts \in IF filterMode = "DisableFilter" THEN {{}} ELSE SUBSET HostIDs
    /\ filteredTreeShared = (filterMode = "DisableFilter")
    /\ filteredTree = IF filteredTreeShared THEN {}
                      ELSE { id \in InTree(storageHostTree) :
                               ~Filtered(filterMode, filteredHosts, id) }
    /\ ipViolationCheck \in BOOLEAN
    /\ initialScanFinished = 1
    /\ hostCall = NoHostCall
    /\ heap = <<>>
    /\ heapSegments = {}
    /\ repairingSegments = {}
    /\ nextSegment = NoSegment
    /\ added = FALSE
    /\ pushOrder = <<>>
    /\ chk = IdleCheckInput
    /\ bucket = Unchecked
    /\ contracts = {}
    /\ status = [ id \in ContractIDs |-> StatusGood ]
    /\ otherHolds = {}
    /\ expiredContracts = EmptyMap
    /\ renewedFrom = EmptyMap
    /\ renewedTo = EmptyMap
    /\ renewing = {}
    /\ pc = "idle"
    /\ rn = NoRenewal
    /\ fail = IdleFailInput
    /\ failOut = NotFailed
    /\ prepIn = IdlePrepareInput
    /\ prep = PrepareStart
    /\ payIn = IdlePayInput
    /\ payOut = NotCalled
    /\ draftIn = IdleDraftInput
    /\ draft = NoDraft
    /\ neg = NoNegotiation
    /\ interactions = [failed |-> 0, successful |-> 0]
    /\ negCount = 0
    /\ dposIn = IdleDposInput
    /\ dposOut = NotChecked
    /\ sendCalls = [c \in Callers |-> NoCall]
    /\ nonceLock = [a \in Addrs |-> 0]
    /\ poolNonce = [a \in Addrs |-> 0]
    /\ txPool = << >>
    /\ callCount = 0
    /\ wheelIn = IdleWheelInput
    /\ wheel = [run \in Runs |-> newLuckyWheel(IdleWheelInput)]
    /\ loop = NoLoop
    /\ rebuildHeapSignal = FALSE
    /\ segIn = IdleSegmentInput
    /\ segOut = NotBuilt
    /\ buildIn = IdleBuildInput
    /\ buildOut = NothingBuilt
    /\ passIn = IdlePassInput
    /\ pass = NoPass
    /\ stopChan = FALSE
    /\ repair = NotStarted
    /\ failedRenewCount = EmptyMap
    /\ tick = NoTick
    /\ parseIn = IdleFieldMap
    /\ parseOut = [call \in Runs |-> NotParsed]

\* The storage host manager as New leaves it: an empty pool, the filter
\* disabled, the initial scan not finished; the other subsystems idle.
HostPoolInit ==
    /\ storageHostTree = [id \in HostIDs |-> NoHost]
    /\ filteredTree = {}
    /\ filteredTreeShared = TRUE
    /\ filterMode = "DisableFilter"
    /\ filteredHosts = {}
    /\ ipViolationCheck = FALSE
    /\ initialScanFinished = 0
    /\ hostCall = NoHostCall
    /\ heap = <<>>
    /\ heapSegments = {}
    /\ repairingSegments = {}
    /\ nextSegment = NoSegment
    /\ added = FALSE
    /\ pushOrder = <<>>
    /\ chk = IdleCheckInput
    /\ bucket = Unchecked
    /\ contracts = {}
    /\ status = [ id \in ContractIDs |-> StatusGood ]
    /\ otherHolds = {}
    /\ expiredContracts = EmptyMap
    /\ renewedFrom = EmptyMap
    /\ renewedTo = EmptyMap
    /\ renewing = {}
    /\ pc = "idle"
    /\ rn = NoRenewal
    /\ fail = IdleFailInput
    /\ failOut = NotFailed
    /\ prepIn = IdlePrepareInput
    /\ prep = PrepareStart
    /\ payIn = IdlePayInput
    /\ payOut = NotCalled
    /\ draftIn = IdleDraftInput
    /\ draft = NoDraft
    /\ neg = NoNegotiation
    /\ interactions = [failed |-> 0, successful |-> 0]
    /\ negCount = 0
    /\ dposIn = IdleDposInput
    /\ dposOut = NotChecked
    /\ sendCalls = [c \in Callers |-> NoCall]
    /\ nonceLock = [a \in Addrs |-> 0]
    /\ poolNonce = [a \in Addrs |-> 0]
    /\ txPool = << >>
    /\ callCount = 0
    /\ wheelIn = IdleWheelInput
    /\ wheel = [run \in Runs |-> newLuckyWheel(IdleWheelInput)]
    /\ loop = NoLoop
    /\ rebuildHeapSignal = FALSE
    /\ segIn = IdleSegmentInput
    /\ segOut = NotBuilt
    /\ buildIn = IdleBuildInput
    /\ buildOut = NothingBuilt
    /\ passIn = IdlePassInput
    /\ pass = NoPass
    /\ stopChan = FALSE
    /\ repair = NotStarted
    /\ failedRenewCount = EmptyMap
    /\ tick = NoTick
    /\ parseIn = IdleFieldMap
    /\ parseOut = [call \in Runs |-> NotParsed]

\* Two lucky wheels made from the same entries, seed and target; the other
\* subsystems idle.
WheelInit ==
    /\ wheelIn \in WheelInputs
    /\ wheel = [run \in Runs |-> newLuckyWheel(wheelIn)]
    /\ heap = <<>>
    /\ heapSegments = {}
    /\ repairingSegments = {}
    /\ nextSegment = NoSegment
    /\ added = FALSE
    /\ pushOrder = <<>>
    /\ chk = IdleCheckInput
    /\ bucket = Unchecked
    /\ contracts = {}
    /\ status = [ id \in ContractIDs |-> StatusGood ]
    /\ otherHolds = {}
    /\ expiredContracts = EmptyMap
    /\ renewedFrom = EmptyMap
    /\ renewedTo = EmptyMap
    /\ renewing = {}
    /\ pc = "idle"
    /\ rn = NoRenewal
    /\ fail = IdleFailInput
    /\ failOut = NotFailed
    /\ prepIn = IdlePrepareInput
    /\ prep = PrepareStart
    /\ payIn = IdlePayInput
    /\ payOut = NotCalled
    /\ draftIn = IdleDraftInput
    /\ draft = NoDraft
    /\ neg = NoNegotiation
    /\ interactions = [failed |-> 0, successful |-> 0]
    /\ negCount = 0
    /\ dposIn = IdleDposInput
    /\ dposOut = NotChecked
    /\ sendCalls = [c \in Callers |-> NoCall]
    /\ nonceLock = [a \in Addrs |-> 0]
    /\ poolNonce = [a \in Addrs |-> 0]
    /\ txPool = << >>
    /\ callCount = 0
    /\ storageHostTree = [id \in HostIDs |-> NoHost]
    /\ filteredTree = {}
    /\ filteredTreeShared = TRUE
    /\ filterMode = "DisableFilter"
    /\ filteredHosts = {}
    /\ ipViolationCheck = FALSE
    /\ initialScanFinished = 0
    /\ hostCall = NoHostCall
    /\ loop = NoLoop
    /\ rebuildHeapSignal = FALSE
    /\ segIn = IdleSegmentInput
    /\ segOut = NotBuilt
    /\ buildIn = IdleBuildInput
    /\ buildOut = NothingBuilt
    /\ passIn = IdlePassInput
    /\ pass = NoPass
    /\ stopChan = FALSE
    /\ repair = NotStarted
    /\ failedRenewCount = EmptyMap
    /\ tick = NoTick
    /\ parseIn = IdleFieldMap
    /\ parseOut = [call \in Runs |-> NotParsed]

\* An empty upload heap and no uploadLoop call running; the other subsystems
\* idle.
LoopInit ==
    /\ heap = <<>>
    /\ heapSegments = {}
    /\ repairingSegments = {}
    /\ nextSegment = NoSegment
    /\ added = FALSE
    /\ pushOrder = <<>>
    /\ loop = NoLoop
    /\ rebuildHeapSignal = FALSE
    /\ chk = IdleCheckInput
    /\ bucket = Unchecked
    /\ contracts = {}
    /\ status = [ id \in ContractIDs |-> StatusGood ]
    /\ otherHolds = {}
    /\ expiredContracts = EmptyMap
    /\ renewedFrom = EmptyMap
    /\ renewedTo = EmptyMap
    /\ renewing = {}
    /\ pc = "idle"
    /\ rn = NoRenewal
    /\ fail = IdleFailInput
    /\ failOut = NotFailed
    /\ prepIn = IdlePrepareInput
    /\ prep = PrepareStart
    /\ payIn = IdlePayInput
    /\ payOut = NotCalled
    /\ draftIn = IdleDraftInput
    /\ draft = NoDraft
    /\ neg = NoNegotiation
    /\ interactions = [failed |-> 0, successful |-> 0]
    /\ negCount = 0
    /\ dposIn = IdleDposInput
    /\ dposOut = NotChecked
    /\ sendCalls = [c \in Callers |-> NoCall]
    /\ nonceLock = [a \in Addrs |-> 0]
    /\ poolNonce = [a \in Addrs |-> 0]
    /\ txPool = << >>
    /\ callCount = 0
    /\ storageHostTree = [id \in HostIDs |-> NoHost]
    /\ filteredTree = {}
    /\ filteredTreeShared = TRUE
    /\ filterMode = "DisableFilter"
    /\ filteredHosts = {}
    /\ ipViolationCheck = FALSE
    /\ initialScanFinished = 0
    /\ hostCall = NoHostCall
    /\ wheelIn = IdleWheelInput
    /\ wheel = [run \in Runs |-> newLuckyWheel(IdleWheelInput)]
    /\ segIn = IdleSegmentInput
    /\ segOut = NotBuilt
    /\ buildIn = IdleBuildInput
    /\ buildOut = NothingBuilt
    /\ passIn = IdlePassInput
    /\ pass = NoPass
    /\ stopChan = FALSE
    /\ repair = NotStarted
    /\ failedRenewCount = EmptyMap
    /\ tick = NoTick
    /\ parseIn = IdleFieldMap
    /\ parseOut = [call \in Runs |-> NotParsed]

\* Any host set, sectors and contracts, the segment not built yet; the other
\* subsystems idle.
SegmentInit ==
    /\ segIn \in SegmentInputs
    /\ segOut = NotBuilt
    /\ heap = <<>>
    /\ heapSegments = {}
    /\ repairingSegments = {}
    /\ nextSegment = NoSegment
    /\ added = FALSE
    /\ pushOrder = <<>>
    /\ chk = IdleCheckInput
    /\ bucket = Unchecked
    /\ contracts = {}
    /\ status = [ id \in ContractIDs |-> StatusGood ]
    /\ otherHolds = {}
    /\ expiredContracts = EmptyMap
    /\ renewedFrom = EmptyMap
    /\ renewedTo = EmptyMap
    /\ renewing = {}
    /\ pc = "idle"
    /\ rn = NoRenewal
    /\ fail = IdleFailInput
    /\ failOut = NotFailed
    /\ prepIn = IdlePrepareInput
    /\ prep = PrepareStart
    /\ payIn = IdlePayInput
    /\ payOut = NotCalled
    /\ draftIn = IdleDraftInput
    /\ draft = NoDraft
    /\ neg = NoNegotiation
    /\ interactions = [failed |-> 0, successful |-> 0]
    /\ negCount = 0
    /\ dposIn = IdleDposInput
    /\ dposOut = NotChecked
    /\ sendCalls = [c \in Callers |-> NoCall]
    /\ nonceLock = [a \in Addrs |-> 0]
    /\ poolNonce = [a \in Addrs |-> 0]
    /\ txPool = << >>
    /\ callCount = 0
    /\ storageHostTree = [id \in HostIDs |-> NoHost]
    /\ filteredTree = {}
    /\ filteredTreeShared = TRUE
    /\ filterMode = "DisableFilter"
    /\ filteredHosts = {}
    /\ ipViolationCheck = FALSE
    /\ initialScanFinished = 0
    /\ hostCall = NoHostCall
    /\ wheelIn = IdleWheelInput
    /\ wheel = [run \in Runs |-> newLuckyWheel(IdleWheelInput)]
    /\ loop = NoLoop
    /\ rebuildHeapSignal = FALSE
    /\ buildIn = IdleBuildInput
    /\ buildOut = NothingBuilt
    /\ passIn = IdlePassInput
    /\ pass = NoPass
    /\ stopChan = FALSE
    /\ repair = NotStarted
    /\ failedRenewCount = EmptyMap
    /\ tick = NoTick
    /\ parseIn = IdleFieldMap
    /\ parseOut = [call \in Runs |-> NotParsed]

\* Any file, target and number of workers, nothing built yet; the other
\* subsystems idle.
BuildInit ==
    /\ buildIn \in BuildInputs
    /\ buildOut = NothingBuilt
    /\ heap = <<>>
    /\ heapSegments = {}
    /\ repairingSegments = {}
    /\ nextSegment = NoSegment
    /\ added = FALSE
    /\ pushOrder = <<>>
    /\ chk = IdleCheckInput
    /\ bucket = Unchecked
    /\ contracts = {}
    /\ status = [ id \in ContractIDs |-> StatusGood ]
    /\ otherHolds = {}
    /\ expiredContracts = EmptyMap
    /\ renewedFrom = EmptyMap
    /\ renewedTo = EmptyMap
    /\ renewing = {}
    /\ pc = "idle"
    /\ rn = NoRenewal
    /\ fail = IdleFailInput
    /\ failOut = NotFailed
    /\ prepIn = IdlePrepareInput
    /\ prep = PrepareStart
    /\ payIn = IdlePayInput
    /\ payOut = NotCalled
    /\ draftIn = IdleDraftInput
    /\ draft = NoDraft
    /\ neg = NoNegotiation
    /\ interactions = [failed |-> 0, successful |-> 0]
    /\ negCount = 0
    /\ dposIn = IdleDposInput
    /\ dposOut = NotChecked
    /\ sendCalls = [c \in Callers |-> NoCall]
    /\ nonceLock = [a \in Addrs |-> 0]
    /\ poolNonce = [a \in Addrs |-> 0]
    /\ txPool = << >>
    /\ callCount = 0
    /\ storageHostTree = [id \in HostIDs |-> NoHost]
    /\ filteredTree = {}
    /\ filteredTreeShared = TRUE
    /\ filterMode = "DisableFilter"
    /\ filteredHosts = {}
    /\ ipViolationCheck = FALSE
    /\ initialScanFinished = 0
    /\ hostCall = NoHostCall
    /\ wheelIn = IdleWheelInput
    /\ wheel = [run \in Runs |-> newLuckyWheel(IdleWheelInput)]
    /\ loop = NoLoop
    /\ rebuildHeapSignal = FALSE
    /\ segIn = IdleSegmentInput
    /\ segOut = NotBuilt
    /\ passIn = IdlePassInput
    /\ pass = NoPass
    /\ stopChan = FALSE
    /\ repair = NotStarted
    /\ failedRenewCount = EmptyMap
    /\ tick = NoTick
    /\ parseIn = IdleFieldMap
    /\ parseOut = [call \in Runs |-> NotParsed]

\* An empty upload heap, any directory, no pass made yet; the other
\* subsystems idle.
PassInit ==
    /\ heap = <<>>
    /\ heapSegments = {}
    /\ repairingSegments = {}
    /\ nextSegment = NoSegment
    /\ added = FALSE
    /\ pushOrder = <<>>
    /\ passIn \in PassInputs
    /\ pass = NoPass
    /\ chk = IdleCheckInput
    /\ bucket = Unchecked
    /\ contracts = {}
    /\ status = [ id \in ContractIDs |-> StatusGood ]
    /\ otherHolds = {}
    /\ expiredContracts = EmptyMap
    /\ renewedFrom = EmptyMap
    /\ renewedTo = EmptyMap
    /\ renewing = {}
    /\ pc = "idle"
    /\ rn = NoRenewal
    /\ fail = IdleFailInput
    /\ failOut = NotFailed
    /\ prepIn = IdlePrepareInput
    /\ prep = PrepareStart
    /\ payIn = IdlePayInput
    /\ payOut = NotCalled
    /\ draftIn = IdleDraftInput
    /\ draft = NoDraft
    /\ neg = NoNegotiation
    /\ interactions = [failed |-> 0, successful |-> 0]
    /\ negCount = 0
    /\ dposIn = IdleDposInput
    /\ dposOut = NotChecked
    /\ sendCalls = [c \in Callers |-> NoCall]
    /\ nonceLock = [a \in Addrs |-> 0]
    /\ poolNonce = [a \in Addrs |-> 0]
    /\ txPool = << >>
    /\ callCount = 0
    /\ storageHostTree = [id \in HostIDs |-> NoHost]
    /\ filteredTree = {}
    /\ filteredTreeShared = TRUE
    /\ filterMode = "DisableFilter"
    /\ filteredHosts = {}
    /\ ipViolationCheck = FALSE
    /\ initialScanFinished = 0
    /\ hostCall = NoHostCall
    /\ wheelIn = IdleWheelInput
    /\ wheel = [run \in Runs |-> newLuckyWheel(IdleWheelInput)]
    /\ loop = NoLoop
    /\ rebuildHeapSignal = FALSE
    /\ segIn = IdleSegmentInput
    /\ segOut = NotBuilt
    /\ buildIn = IdleBuildInput
    /\ buildOut = NothingBuilt
    /\ stopChan = FALSE
    /\ repair = NotStarted
    /\ failedRenewCount = EmptyMap
    /\ tick = NoTick
    /\ parseIn = IdleFieldMap
    /\ parseOut = [call \in Runs |-> NotParsed]

\* The stop channel open and uploadAndRepairLoop not started; the other
\* subsystems idle.
RepairInit ==
    /\ stopChan = FALSE
    /\ repair = NotStarted
    /\ heap = <<>>
    /\ heapSegments = {}
    /\ repairingSegments = {}
    /\ nextSegment = NoSegment
    /\ added = FALSE
    /\ pushOrder = <<>>
    /\ chk = IdleCheckInput
    /\ bucket = Unchecked
    /\ contracts = {}
    /\ status = [ id \in ContractIDs |-> StatusGood ]
    /\ otherHolds = {}
    /\ expiredContracts = EmptyMap
    /\ renewedFrom = EmptyMap
    /\ renewedTo = EmptyMap
    /\ renewing = {}
    /\ pc = "idle"
    /\ rn = NoRenewal
    /\ fail = IdleFailInput
    /\ failOut = NotFailed
    /\ prepIn = IdlePrepareInput
    /\ prep = PrepareStart
    /\ payIn = IdlePayInput
    /\ payOut = NotCalled
    /\ draftIn = IdleDraftInput
    /\ draft = NoDraft
    /\ neg = NoNegotiation
    /\ interactions = [failed |-> 0, successful |-> 0]
    /\ negCount = 0
    /\ dposIn = IdleDposInput
    /\ dposOut = NotChecked
    /\ sendCalls = [c \in Callers |-> NoCall]
    /\ nonceLock = [a \in Addrs |-> 0]
    /\ poolNonce = [a \in Addrs |-> 0]
    /\ txPool = << >>
    /\ callCount = 0
    /\ storageHostTree = [id \in HostIDs |-> NoHost]
    /\ filteredTree = {}
    /\ filteredTreeShared = TRUE
    /\ filterMode = "DisableFilter"
    /\ filteredHosts = {}
    /\ ipViolationCheck = FALSE
    /\ initialScanFinished = 0
    /\ hostCall = NoHostCall
    /\ wheelIn = IdleWheelInput
    /\ wheel = [run \in Runs |-> newLuckyWheel(IdleWheelInput)]
    /\ loop = NoLoop
    /\ rebuildHeapSignal = FALSE
    /\ segIn = IdleSegmentInput
    /\ segOut = NotBuilt
    /\ buildIn = IdleBuildInput
    /\ buildOut = NothingBuilt
    /\ passIn = IdlePassInput
    /\ pass = NoPass
    /\ failedRenewCount = EmptyMap
    /\ tick = NoTick
    /\ parseIn = IdleFieldMap
    /\ parseOut = [call \in Runs |-> NotParsed]

\* Any failedRenewCount, no tick under way; the other subsystems idle.
TickInit ==
    /\ failedRenewCount \in CountMaps
    /\ tick = NoTick
    /\ heap = <<>>
    /\ heapSegments = {}
    /\ repairingSegments = {}
    /\ nextSegment = NoSegment
    /\ added = FALSE
    /\ pushOrder = <<>>
    /\ chk = IdleCheckInput
    /\ bucket = Unchecked
    /\ contracts = {}
    /\ status = [ id \in ContractIDs |-> StatusGood ]
    /\ otherHolds = {}
    /\ expiredContracts = EmptyMap
    /\ renewedFrom = EmptyMap
    /\ renewedTo = EmptyMap
    /\ renewing = {}
    /\ pc = "idle"
    /\ rn = NoRenewal
    /\ fail = IdleFailInput
    /\ failOut = NotFailed
    /\ prepIn = IdlePrepareInput
    /\ prep = PrepareStart
    /\ payIn = IdlePayInput
    /\ payOut = NotCalled
    /\ draftIn = IdleDraftInput
    /\ draft = NoDraft
    /\ neg = NoNegotiation
    /\ interactions = [failed |-> 0, successful |-> 0]
    /\ negCount = 0
    /\ dposIn = IdleDposInput
    /\ dposOut = NotChecked
    /\ sendCalls = [c \in Callers |-> NoCall]
    /\ nonceLock = [a \in Addrs |-> 0]
    /\ poolNonce = [a \in Addrs |-> 0]
    /\ txPool = << >>
    /\ callCount = 0
    /\ storageHostTree = [id \in HostIDs |-> NoHost]
    /\ filteredTree = {}
    /\ filteredTreeShared = TRUE
    /\ filterMode = "DisableFilter"
    /\ filteredHosts = {}
    /\ ipViolationCheck = FALSE
    /\ initialScanFinished = 0
    /\ hostCall = NoHostCall
    /\ wheelIn = IdleWheelInput
    /\ wheel = [run \in Runs |-> newLuckyWheel(IdleWheelInput)]
    /\ loop = NoLoop
    /\ rebuildHeapSignal = FALSE
    /\ segIn = IdleSegmentInput
    /\ segOut = NotBuilt
    /\ buildIn = IdleBuildInput
    /\ buildOut = NothingBuilt
    /\ passIn = IdlePassInput
    /\ pass = NoPass
    /\ stopChan = FALSE
    /\ repair = NotStarted
    /\ parseIn = IdleFieldMap
    /\ parseOut = [call \in Runs |-> NotParsed]

\* Any fields map, no call made yet; the other subsystems idle.
ParseInit ==
    /\ parseIn \in FieldMaps
    /\ parseOut = [call \in Runs |-> NotParsed]
    /\ heap = <<>>
    /\ heapSegments = {}
    /\ repairingSegments = {}
    /\ nextSegment = NoSegment
    /\ added = FALSE
    /\ pushOrder = <<>>
    /\ chk = IdleCheckInput
    /\ bucket = Unchecked
    /\ contracts = {}
    /\ status = [ id \in ContractIDs |-> StatusGood ]
    /\ otherHolds = {}
    /\ expiredContracts = EmptyMap
    /\ renewedFrom = EmptyMap
    /\ renewedTo = EmptyMap
    /\ renewing = {}
    /\ pc = "idle"
    /\ rn = NoRenewal
    /\ fail = IdleFailInput
    /\ failOut = NotFailed
    /\ prepIn = IdlePrepareInput
    /\ prep = PrepareStart
    /\ payIn = IdlePayInput
    /\ payOut = NotCalled
    /\ draftIn = IdleDraftInput
    /\ draft = NoDraft
    /\ neg = NoNegotiation
    /\ interactions = [failed |-> 0, successful |-> 0]
    /\ negCount = 0
    /\ dposIn = IdleDposInput
    /\ dposOut = NotChecked
    /\ sendCalls = [c \in Callers |-> NoCall]
    /\ nonceLock = [a \in Addrs |-> 0]
    /\ poolNonce = [a \in Addrs |-> 0]
    /\ txPool = << >>
    /\ callCount = 0
    /\ storageHostTree = [id \in HostIDs |-> NoHost]
    /\ filteredTree = {}
    /\ filteredTreeShared = TRUE
    /\ filterMode = "DisableFilter"
    /\ filteredHosts = {}
    /\ ipViolationCheck = FALSE
    /\ initialScanFinished = 0
    /\ hostCall = NoHostCall
    /\ wheelIn = IdleWheelInput
    /\ wheel = [run \in Runs |-> newLuckyWheel(IdleWheelInput)]
    /\ loop = NoLoop
    /\ rebuildHeapSignal = FALSE
    /\ segIn = IdleSegmentInput
    /\ segOut = NotBuilt
    /\ buildIn = IdleBuildInput
    /\ buildOut = NothingBuilt
    /\ passIn = IdlePassInput
    /\ pass = NoPass
    /\ stopChan = FALSE
    /\ repair = NotStarted
    /\ failedRenewCount = EmptyMap
    /\ tick = NoTick

SpecHeap == HeapInit /\ [][HeapNext]_vars

SpecCheck == CheckInit /\ [][CheckNext]_vars

SpecRenew == RenewInit /\ [][RenewNext]_vars

SpecFail == FailInit /\ [][FailNext]_vars

SpecPrepare == PrepareInit /\ [][PrepareNext]_vars

SpecPay == PayInit /\ [][PayNext]_vars

SpecDraft == DraftInit /\ [][DraftNext]_vars

SpecNegotiate == NegotiateInit /\ [][NegotiateNext]_vars

SpecDpos == DposInit /\ [][DposNext]_vars

SpecSend == SendInit /\ [][SendNext]_vars

SpecHostQuery == HostQueryInit /\ [][HostQueryNext]_vars

SpecHostPool == HostPoolInit /\ [][HostPoolNext]_vars

SpecWheel == WheelInit /\ [][WheelNext]_vars

SpecLoop == LoopInit /\ [][LoopNext]_vars

SpecSegment == SegmentInit /\ [][SegmentNext]_vars

SpecBuild == BuildInit /\ [][BuildNext]_vars

SpecPass == PassInit /\ [][PassNext]_vars

SpecRepair == RepairInit /\ [][RepairNext]_vars

SpecTick == TickInit /\ [][TickNext]_vars

SpecParse == ParseInit /\ [][ParseNext]_vars

-----------------------------------------------------------------------------
(***************************************************************************)
(* Properties of the upload heap.                                          *)
(***************************************************************************)

\* The order of the specification, written from its words: stuck before
\* unstuck, then the lower sectorsCompletedNum / sectorsNeedNum first.
Precedes(a, b) ==
    \/ a.stuck /\ ~b.stuck
    \/ /\ a.stuck = b.stuck
       /\ a.sectorsCompletedNum * b.sectorsNeedNum < b.sectorsCompletedNum * a.sectorsNeedNum

\* The same stuck flag and the same completion ratio.
SamePriority(a, b) ==
    /\ a.stuck = b.stuck
    /\ a.sectorsCompletedNum * b.sectorsNeedNum = b.sectorsCompletedNum * a.sectorsNeedNum

PushContract(uuc) ==
    IF uuc.id \in heapSegments \/ uuc.id \in repairingSegments
    THEN /\ added' = FALSE
         /\ heap' = heap
         /\ heapSegments' = heapSegments
         /\ repairingSegments' = repairingSegments
    ELSE /\ added' = TRUE
         /\ BagOfSeq(heap') = BagOfSeq(heap) (+) SetToBag({uuc})
         /\ heapSegments' = heapSegments \cup {uuc.id}
         /\ repairingSegments' = repairingSegments

\* C2: a push of a segment whose id is in heapSegments or repairingSegments
\* returns false and changes nothing; any other push returns true and adds
\* exactly that segment to the heap and its id to heapSegments.  After either,
\* the id is in one of the two sets, so the same push again changes nothing.
C2_PushContract ==
    [][\A uuc \in Segments :
          push(uuc) => /\ PushContract(uuc)
                       /\ uuc.id \in heapSegments' \cup repairingSegments']_vars

\* A push was accepted and a later one rejected, with a segment in repair.
C2_Witness ==
    /\ ~added
    /\ Len(heap) >= 2
    /\ repairingSegments # {}

\* The three segments of the specification's heap-ordering scenario.
SegA == [id |-> 1, stuck |-> FALSE, sectorsCompletedNum |-> 3, sectorsNeedNum |-> 10]
SegB == [id |-> 2, stuck |-> TRUE,  sectorsCompletedNum |-> 9, sectorsNeedNum |-> 10]
SegC == [id |-> 3, stuck |-> FALSE, sectorsCompletedNum |-> 1, sectorsNeedNum |-> 10]

\* C3: the segment pop returns is minimal among those in the heap: no segment
\* of the heap strictly precedes it (stuck first, then less complete first);
\* and a heap holding A, B, C of the scenario is popped in the order B, C, A.
C3_PopReturnsMinimum ==
    /\ heap # <<>> =>
          \A j \in DOMAIN heap : ~Precedes(heap[j], HeapPopResult(heap))
    /\ BagOfSeq(heap) = SetToBag({SegA, SegB, SegC}) =>
          DrainOrder(heap) = <<SegB, SegC, SegA>>

\* A, B, C were pushed in that order (all unpopped until then), B has been
\* popped, and A and C wait in the heap.
C3_Witness ==
    /\ nextSegment = SegB
    /\ pushOrder = <<SegA, SegC>>
    /\ BagOfSeq(heap) = SetToBag({SegA, SegC})

\* C4 as stated: among the segments of the priority of the one pop returns,
\* the one returned is the one pushed first.
C4_FIFOWithinEqualPriority ==
    heap # <<>> =>
        \A k \in DOMAIN pushOrder :
            SamePriority(pushOrder[k], HeapPopResult(heap)) =>
                IndexOf(pushOrder, HeapPopResult(heap)) <= k

\* C4 as amended: segments of equal priority are popped one after another,
\* with no segment of another priority between them; their order among
\* themselves is the heap's, not the order of the pushes.
C4_EqualPriorityPoppedTogether ==
    LET d == DrainOrder(heap) IN
    \A i, j, k \in DOMAIN d :
        (i < j /\ j < k /\ SamePriority(d[i], d[k])) => SamePriority(d[i], d[j])

\* Three segments wait, two of them of equal priority with different ids, and
\* the one pushed later is popped first.
C4_Witness ==
    /\ Len(heap) = 3
    /\ \E i, k \in DOMAIN pushOrder :
          /\ i < k
          /\ pushOrder[i].id # pushOrder[k].id
          /\ SamePriority(pushOrder[i], pushOrder[k])
          /\ \E m \in DOMAIN pushOrder : ~SamePriority(pushOrder[m], pushOrder[i])
          /\ IndexOf(DrainOrder(heap), pushOrder[k]) < IndexOf(DrainOrder(heap), pushOrder[i])


-----------------------------------------------------------------------------
(***************************************************************************)
(* Properties of checkForContractRenew.                                    *)
(***************************************************************************)

\* The contract reaches the classification: its host is present and not
\* filtered, and the contract is renewable.
Eligible(c) == c.exists /\ ~c.Filtered /\ c.RenewAbility

\* The mathematical sum blockHeight + RenewWindow is at least EndHeight: it
\* is 2^64 or more, above every uint64, or it is below 2^64 and not below
\* EndHeight.
SumAtLeastEndHeight(c) ==
    \/ Carry64(c.blockHeight, c.RenewWindow) = 1
    \/ Geq64(Add64(c.blockHeight, c.RenewWindow), c.EndHeight)

\* C9 as stated: an eligible contract is in the close-to-expire list exactly
\* when currentBlockHeight + RenewWindow >= EndHeight, for all heights, windows
\* and end heights.
C9_CloseToExpireIffSum ==
    (bucket # Unchecked /\ Eligible(chk)) =>
        (bucket.list = "closeToExpire" <=> SumAtLeastEndHeight(chk))

\* What line 58 computes: an eligible contract is in the close-to-expire list
\* exactly when the sum taken modulo 2^64, as uint64 addition does, is at
\* least EndHeight; whenever the sum is below 2^64 this is the stated condition.
WrappedSumDecides ==
    (bucket # Unchecked /\ Eligible(chk)) =>
        /\ bucket.list = "closeToExpire" <=>
              Geq64(Add64(chk.blockHeight, chk.RenewWindow), chk.EndHeight)
        /\ Carry64(chk.blockHeight, chk.RenewWindow) = 0 =>
              (bucket.list = "closeToExpire" <=> SumAtLeastEndHeight(chk))

\* An eligible contract whose end height is exactly the sum was classified.
CloseAtExactSum ==
    /\ Eligible(chk)
    /\ Add64(chk.blockHeight, chk.RenewWindow) = chk.EndHeight
    /\ Carry64(chk.blockHeight, chk.RenewWindow) = 0
    /\ bucket.list = "closeToExpire"

\* The contract of the specification's renewal scenario at a given height.
Scenario(h) ==
    /\ Eligible(chk)
    /\ chk.EndHeight = U64(1000)
    /\ chk.RenewWindow = U64(100)
    /\ chk.blockHeight = U64(h)
    /\ bucket # Unchecked

\* C10 as stated: with EndHeight = 1000 and RenewWindow = 100 the contract is
\* close-to-expire at height 899 and not close-to-expire at height 898.
C10_CloseAt899NotAt898 ==
    /\ Scenario(899) => bucket.list = "closeToExpire"
    /\ Scenario(898) => bucket.list # "closeToExpire"

\* C10 as amended: the contract is close-to-expire at height 900, the first
\* height with height + 100 >= 1000, and not at 899 nor at 898.
C10_CloseAt900NotAt899 ==
    /\ Scenario(900) => bucket.list = "closeToExpire"
    /\ Scenario(899) => bucket.list # "closeToExpire"
    /\ Scenario(898) => bucket.list # "closeToExpire"

\* The scenario's contract was classified at height 900 and is to be renewed.
C10_Witness == Scenario(900) /\ bucket.list = "closeToExpire"


-----------------------------------------------------------------------------
(***************************************************************************)
(* Properties of the contract manager's renewal.                           *)
(***************************************************************************)

\* C5: in every state, the intermediate states of contractRenewStart
\* included, no contract id is in activeContracts and in expiredContracts.
C5_ActiveExpiredDisjoint == contracts \cap DOMAIN expiredContracts = {}

\* b is reached from a in at most k steps of renewedTo.
RECURSIVE RenewedToReaches(_, _, _)
RenewedToReaches(a, b, k) ==
    /\ k > 0
    /\ a \in DOMAIN renewedTo
    /\ \/ renewedTo[a] = b
       \/ RenewedToReaches(renewedTo[a], b, k - 1)

\* C6: renewedFrom and renewedTo are inverse mappings, and the lineage graph
\* is acyclic and a forest of linear chains: no contract has two successors'
\* worth of predecessors, and none is its own descendant.
C6_LineageInverseAcyclic ==
    /\ \A a \in DOMAIN renewedTo :
          /\ renewedTo[a] \in DOMAIN renewedFrom
          /\ renewedFrom[renewedTo[a]] = a
    /\ \A x \in DOMAIN renewedFrom :
          renewedFrom[x] \in DOMAIN renewedTo => renewedTo[renewedFrom[x]] = x
    /\ \A a, b \in DOMAIN renewedTo : renewedTo[a] = renewedTo[b] => a = b
    /\ \A a \in DOMAIN renewedTo : ~RenewedToReaches(a, a, NumContracts + 1)

\* C7: when contractRenewStart returns from a renewal whose negotiation
\* succeeded, the successor is good for upload and renewal, the predecessor
\* is canceled, recorded as expired, linked both ways, and no longer active.
C7_RenewedStatuses ==
    (pc = "done" /\ rn.negotiated) =>
        /\ rn.renewedContract \in contracts
        /\ status[rn.renewedContract] = StatusGood
        /\ status[rn.id] = StatusCanceled
        /\ rn.id \in DOMAIN expiredContracts
        /\ rn.id \in DOMAIN renewedTo
        /\ renewedTo[rn.id] = rn.renewedContract
        /\ rn.renewedContract \in DOMAIN renewedFrom
        /\ renewedFrom[rn.renewedContract] = rn.id
        /\ rn.id \notin contracts

\* C8: when contractRenewStart returns, a contract it acquired has been
\* released exactly once, and was neither updated nor deleted by the renewal
\* after it had been returned.
C8_AcquiredReleasedOnce ==
    (pc = "done" /\ rn.acquired) =>
        /\ rn.released = 1
        /\ ~rn.held
        /\ ~rn.usedAfterReturn

-----------------------------------------------------------------------------
(***************************************************************************)
(* Properties of the insufficient-funding classification.                  *)
(***************************************************************************)

\* ClientBalance / TotalCost, as a fraction, is below the threshold.
FractionBelowThreshold(c) ==
    c.ClientBalance * ThresholdDen < ThresholdNum * c.TotalCost

\* C11: a contract that is not close-to-expire is in the insufficient-funding
\* list exactly when ClientBalance < 3 x the sector cost or the fraction
\* ClientBalance / TotalCost is below the threshold, its cost then being
\* TotalCost x 2; otherwise it is in neither list.
C11_InsufficientFundingIffFraction ==
    (bucket # Unchecked /\ Eligible(chk) /\ ~CloseToExpire(chk)) =>
        /\ bucket.list = "insufficientFunding" <=>
              \/ chk.ClientBalance < 3 * chk.totalSectorCost
              \/ FractionBelowThreshold(chk)
        /\ bucket.list = "insufficientFunding" => bucket.cost = chk.TotalCost * 2
        /\ bucket.list \in {"insufficientFunding", "none"}

-----------------------------------------------------------------------------
(***************************************************************************)
(* Properties of the handling of a failed renewal.                         *)
(***************************************************************************)

\* The mathematical sum blockHeight + RenewWindow/2 is at least EndHeight, and
\* the contract's renewals failed often enough.
LateAndRepeated(f) ==
    /\ \/ Carry64(f.blockHeight, Half64(f.RenewWindow)) = 1
       \/ Geq64(Add64(f.blockHeight, Half64(f.RenewWindow)), f.EndHeight)
    /\ f.numFailed >= consecutiveRenewFailsBeforeReplacement

-----------------------------------------------------------------------------
(***************************************************************************)
(* Properties of prepareContractRenew's budget.                            *)
(***************************************************************************)

\* C13: prepareContractRenew returns the initial fund minus the sum of the
\* costs of the renewals it performed; skipped and failed renewals deduct
\* nothing, and with no renewal performed it returns the initial fund.
C13_RemainingIsFundMinusPerformed ==
    prep.returned =>
        prep.remainingFund = prepIn.clientRemainingFund - prep.performed

\* C14: a renewal is started only if its cost does not exceed the fund left
\* after the renewals already performed in the call, so the renewals
\* performed never cost more in total than the initial fund.
C14_PerformedWithinFund ==
    /\ ~prep.overBudget
    /\ prep.performed <= prepIn.clientRemainingFund

-----------------------------------------------------------------------------
(***************************************************************************)
(* Properties of ClientPayoutsPreTax.                                      *)
(***************************************************************************)

Min(a, b) == IF a <= b THEN a ELSE b

\* The payouts as the formulas of the specification give them.
StatedClientPayout(in) == in.funding - in.ContractPrice - in.basePrice

StatedHostCollateral(in) ==
    LET price == IF in.StoragePrice = 0 THEN 1 ELSE in.StoragePrice
    IN  Min(Min((StatedClientPayout(in) \div price) * in.Collateral + in.baseCollateral,
                in.Collateral * in.period * in.expectedStorage * 5),
            in.MaxCollateral)

\* C15: with funding > ContractPrice the function returns clientPayout =
\* funding - ContractPrice - basePrice, hostCollateral = the least of the three
\* amounts, and hostPayout = hostCollateral + ContractPrice + basePrice; with
\* funding <= ContractPrice it returns an error and no payouts.
C15_PayoutsAsStated ==
    payOut.called =>
        IF payIn.funding > payIn.ContractPrice
        THEN /\ ~payOut.err
             /\ Deref(payOut, payOut.clientPayout) = StatedClientPayout(payIn)
             /\ Deref(payOut, payOut.hostCollateral) = StatedHostCollateral(payIn)
             /\ Deref(payOut, payOut.hostPayout) =
                    StatedHostCollateral(payIn) + payIn.ContractPrice + payIn.basePrice
        ELSE /\ payOut.err
             /\ payOut.clientPayout = "nil"
             /\ payOut.hostPayout = "nil"
             /\ payOut.hostCollateral = "nil"

-----------------------------------------------------------------------------
(***************************************************************************)
(* Properties of the drafted storage contract.                             *)
(***************************************************************************)

\* C16: in every contract drafted by create or renew the client's value is
\* the same in ValidProofOutputs and MissedProofOutputs, and the host's value
\* in MissedProofOutputs is its value in ValidProofOutputs less baseCollateral
\* (zero for create).
C16_MissedIsValidLessBaseCollateral ==
    draft.drafted =>
        /\ draft.MissedProofOutputs[1] = draft.ValidProofOutputs[1]
        /\ draft.MissedProofOutputs[2] =
               draft.ValidProofOutputs[2] - draft.baseCollateral

-----------------------------------------------------------------------------
(***************************************************************************)
(* Properties of the negotiation.                                          *)
(***************************************************************************)

\* The negotiation has returned.
Returned == neg.pc = "done"

\* Position of an event in the handshake so far, 0 when it has not happened.
EventAt(e) ==
    IF e \in Range(neg.events)
    THEN CHOOSE k \in 1..Len(neg.events) : neg.events[k] = e
    ELSE 0

\* b has not happened, or a happened before it.
HappenedBefore(a, b) == EventAt(b) > 0 => (0 < EventAt(a) /\ EventAt(a) < EventAt(b))

\* C17: when a create or renew negotiation aborts after the session was
\* opened, the session is closed, the host's failed-interaction counter has
\* gone up by exactly one and its successful-interaction counter has not
\* moved; the successful counter goes up only for a negotiation that returns
\* without error.
C17_AbortCountsOneFailure ==
    Returned =>
        /\ (neg.ret /\ EventAt("sessionOpened") > 0) =>
              /\ neg.session = "closed"
              /\ interactions.failed = neg.failed0 + 1
              /\ interactions.successful = neg.successful0
        /\ interactions.successful > neg.successful0 => ~neg.ret

\* C18: in create and in renew the contract transaction is submitted only
\* after both host signatures were received, the record is committed only
\* after the transaction was submitted, a failed round is followed by no
\* later one, and a handshake that succeeds ends with the client's
\* acknowledgement and the host's answer.
C18_RoundsInOrder ==
    /\ HappenedBefore("hostContractSign", "txSubmitted")
    /\ HappenedBefore("hostRevisionSign", "txSubmitted")
    /\ HappenedBefore("hostContractSign", "hostRevisionSign")
    /\ HappenedBefore("txSubmitted", "committed")
    /\ (Returned /\ neg.ret) => EventAt("committed") = 0
    /\ (Returned /\ ~neg.ret) =>
          /\ Len(neg.events) >= 2
          /\ neg.events[Len(neg.events) - 1] = "ackSent"
          /\ neg.events[Len(neg.events)] = "hostAck"

-----------------------------------------------------------------------------
(***************************************************************************)
(* Properties of the validation of dpos transactions.                      *)
(***************************************************************************)

\* The request was validated and is an apply-candidate, or a vote.
CheckedApply == dposOut.done /\ dposIn.op = "applyCandidate"
CheckedVote == dposOut.done /\ dposIn.op = "vote"

\* 0 < deposit <= balance - the deposit already recorded.
InAllowedRange(deposit, balance, recorded) ==
    0 < deposit /\ deposit <= balance - recorded

\* The apply-candidate is accepted exactly when all three conditions hold.
ApplyAcceptedIffConditions ==
    dposOut.err = "nil" <=>
        /\ dposIn.balance >= candidateThreshold
        /\ InAllowedRange(dposIn.deposit, dposIn.balance, dposIn.voteDeposit)
        /\ dposIn.deposit >= minDeposit

\* C19 as stated: an apply-candidate is accepted exactly when balance >=
\* candidateThreshold, 0 < deposit <= balance - voteDeposit and deposit >=
\* minDeposit; a deposit outside the range yields ErrDepositValueNotSuitable
\* and one inside it but below minDeposit yields ErrCandidateDepositTooLow.
C19_ApplyCandidateErrors ==
    CheckedApply =>
        /\ ApplyAcceptedIffConditions
        /\ ~InAllowedRange(dposIn.deposit, dposIn.balance, dposIn.voteDeposit) =>
              dposOut.err = "ErrDepositValueNotSuitable"
        /\ (/\ InAllowedRange(dposIn.deposit, dposIn.balance, dposIn.voteDeposit)
            /\ dposIn.deposit < minDeposit) =>
              dposOut.err = "ErrCandidateDepositTooLow"

\* C19 as amended: the same, the two deposit errors being those of a sender
\* whose balance is at least candidateThreshold; a balance below it yields
\* ErrBalanceNotEnoughCandidateThreshold whatever the deposit.
C19_ApplyCandidateErrorsInOrder ==
    CheckedApply =>
        /\ ApplyAcceptedIffConditions
        /\ dposIn.balance < candidateThreshold =>
              dposOut.err = "ErrBalanceNotEnoughCandidateThreshold"
        /\ (/\ dposIn.balance >= candidateThreshold
            /\ ~InAllowedRange(dposIn.deposit, dposIn.balance, dposIn.voteDeposit)) =>
              dposOut.err = "ErrDepositValueNotSuitable"
        /\ (/\ dposIn.balance >= candidateThreshold
            /\ InAllowedRange(dposIn.deposit, dposIn.balance, dposIn.voteDeposit)
            /\ dposIn.deposit < minDeposit) =>
              dposOut.err = "ErrCandidateDepositTooLow"
        /\ (dposIn.balance = 20 /\ dposIn.voteDeposit = 0 /\ dposIn.deposit = 15) =>
              dposOut.err = "nil"
        /\ (dposIn.balance = 20 /\ dposIn.voteDeposit = 0 /\ dposIn.deposit = 5) =>
              dposOut.err = "ErrCandidateDepositTooLow"
        /\ (dposIn.balance = 20 /\ dposIn.voteDeposit = 18 /\ dposIn.deposit = 15) =>
              dposOut.err = "ErrDepositValueNotSuitable"

\* A sender with balance 2e18 and no vote deposit applied with 1e18, the
\* least deposit, and was accepted.
C19_Witness ==
    /\ CheckedApply
    /\ dposIn.balance = 20
    /\ dposIn.voteDeposit = 0
    /\ dposIn.deposit = minDeposit
    /\ dposOut.err = "nil"

\* C20: a vote passes only with a candidate list of at most MaxVoteCount
\* entries and 0 < deposit <= balance - candidateDeposit: without a list it
\* is rejected with ErrEmptyInput, with more than MaxVoteCount entries with
\* ErrBeyondMaxVoteSize, with a deposit outside the range with
\* ErrDepositValueNotSuitable.
C20_VoteRejections ==
    CheckedVote =>
        /\ dposOut.err = "nil" =>
              /\ dposIn.candidates > 0
              /\ dposIn.candidates <= MaxVoteCount
              /\ InAllowedRange(dposIn.deposit, dposIn.balance, dposIn.candidateDeposit)
        /\ dposIn.candidates = 0 => dposOut.err = "ErrEmptyInput"
        /\ dposIn.candidates > MaxVoteCount => dposOut.err = "ErrBeyondMaxVoteSize"
        /\ (/\ dposIn.candidates \in 1..MaxVoteCount
            /\ ~InAllowedRange(dposIn.deposit, dposIn.balance, dposIn.candidateDeposit)) =>
              dposOut.err = "ErrDepositValueNotSuitable"

-----------------------------------------------------------------------------
(***************************************************************************)
(* Properties of the dpos send operations.                                 *)
(***************************************************************************)

\* The errors of argument parsing and of CheckDposOperationTx.
ValidationErrors ==
    { "ErrBeyondMaxVoteSize", "ErrBalanceNotEnoughCandidateThreshold",
      "ErrDepositValueNotSuitable", "ErrCandidateDepositTooLow", "ErrEmptyInput",
      "ErrNotCandidate", "ErrHasNotVote" }

\* Call c returned a validation error to its caller.
RejectedByValidation(c) ==
    sendCalls[c].pc = "returned" /\ sendCalls[c].err \in ValidationErrors

\* No transaction of call c was built, signed or submitted.
NothingSent(c) ==
    /\ ~sendCalls[c].built
    /\ ~sendCalls[c].signed
    /\ ~sendCalls[c].submitted
    /\ \A i \in 1..Len(txPool) : txPool[i].call # sendCalls[c].id

\* C21: when parsing or CheckDposOperationTx fails in a dpos send operation,
\* the error is returned and no transaction is built, signed or submitted;
\* the step that rejects leaves the pool, the pool nonces and the locks as
\* they were, and the request was validated once only.
C21_ValidationErrorSendsNothing ==
    /\ [](\A c \in Callers :
            RejectedByValidation(c) => NothingSent(c) /\ sendCalls[c].validations = 1)
    /\ [][\A c \in Callers :
            (~RejectedByValidation(c) /\ RejectedByValidation(c)') =>
                /\ sendCalls[c].pc = "idle"
                /\ txPool' = txPool
                /\ poolNonce' = poolNonce
                /\ nonceLock' = nonceLock]_vars

\* A call was rejected by validation while another call's transaction was in
\* the pool.
C21_Witness ==
    \E c \in Callers :
        /\ RejectedByValidation(c)
        /\ sendCalls[c].op = "vote"
        /\ Len(txPool) > 0

\* C22: the nonce lock of an address is held by a call from its read of the
\* pool nonce to its return, by one call at a time, and by no call that has
\* returned; no two transactions of one sender in the pool carry the same
\* nonce, and a sender's transactions are in the pool in strictly increasing
\* order of nonce.
C22_NoncesUniqueAndIncreasing ==
    /\ \A c \in Callers :
          sendCalls[c].pc \in {"build", "sign", "submit"} <=>
              nonceLock[sendCalls[c].from] = c
    /\ \A a \in Addrs : nonceLock[a] # 0 => sendCalls[nonceLock[a]].from = a
    /\ \A i, j \in 1..Len(txPool) :
          (i < j /\ txPool[i].from = txPool[j].from) =>
              txPool[i].nonce < txPool[j].nonce

\* Two calls of one sender overlapped (one waited for the lock the other
\* held) and both transactions are in the pool.
C22_Witness ==
    /\ Len(txPool) >= 2
    /\ txPool[1].from = txPool[2].from
    /\ txPool[1].call > txPool[2].call

-----------------------------------------------------------------------------
(***************************************************************************)
(* Properties of the storage host manager.                                 *)
(***************************************************************************)

\* C23: RetrieveHostInfo of a host in the pool returns Filtered =
\* (filterMode = Whitelist) XOR (id in filteredHosts), in every filter mode;
\* of a host not in the pool it returns exists = false.
C23_FilteredIsWhitelistXorListed ==
    hostCall.op = "RetrieveHostInfo" =>
        /\ hostCall.exists <=> storageHostTree[hostCall.id].present
        /\ hostCall.exists =>
              (hostCall.Filtered <=>
                  (/\ (filterMode = "WhitelistFilter") \/ (hostCall.id \in filteredHosts)
                   /\ ~((filterMode = "WhitelistFilter") /\ (hostCall.id \in filteredHosts))))

\* RetrieveHostInfo found a host that the blacklist does not name and
\* reported it as not filtered.
C23_Witness ==
    /\ hostCall.op = "RetrieveHostInfo"
    /\ hostCall.exists
    /\ filterMode = "BlacklistFilter"
    /\ hostCall.id \notin filteredHosts
    /\ ~hostCall.Filtered

\* The hosts of a list, and those of them in the subnet of host h.
ListedHosts(ids) == { ids[i] : i \in 1..Len(ids) }
SubnetGroup(ids, h) ==
    { g \in ListedHosts(ids) : storageHostTree[g].IP = storageHostTree[h].IP }

\* No host of h's subnet group changed its network earlier than h.
EarliestOfGroup(ids, h) ==
    \A g \in SubnetGroup(ids, h) :
        storageHostTree[h].LastIPNetWorkChange <= storageHostTree[g].LastIPNetWorkChange

\* C25: with the check enabled, FilterIPViolationHosts of hosts in the pool
\* reports each host once, and of each subnet group every host but one, the
\* one left out being the earliest by LastIPNetWorkChange (so a host alone
\* in its subnet is not reported), in the order of LastIPNetWorkChange:
\* three hosts of one subnet with t1 < t2 < t3 give [h2, h3].  With the check
\* disabled it reports no host.
C25_EarliestOfSubnetSurvives ==
    hostCall.op = "FilterIPViolationHosts" =>
        /\ ~ipViolationCheck => hostCall.hosts = << >>
        /\ (ipViolationCheck /\ ListedHosts(hostCall.ids) \subseteq InTree(storageHostTree)) =>
              /\ ListedHosts(hostCall.hosts) \subseteq ListedHosts(hostCall.ids)
              /\ \A i, j \in 1..Len(hostCall.hosts) :
                    i < j =>
                      /\ hostCall.hosts[i] # hostCall.hosts[j]
                      /\ storageHostTree[hostCall.hosts[i]].LastIPNetWorkChange
                            <= storageHostTree[hostCall.hosts[j]].LastIPNetWorkChange
              /\ \A h \in ListedHosts(hostCall.ids) :
                    LET kept == SubnetGroup(hostCall.ids, h) \ ListedHosts(hostCall.hosts)
                    IN  /\ Cardinality(kept) = 1
                        /\ \A k \in kept : EarliestOfGroup(hostCall.ids, k)

\* Three hosts of one subnet, listed latest first, changed at three
\* different times: the two later ones were reported.
C25_Witness ==
    /\ hostCall.op = "FilterIPViolationHosts"
    /\ ipViolationCheck
    /\ hostCall.ids = <<3, 2, 1>>
    /\ \A h \in 1..3 : storageHostTree[h] =
                         [ present |-> TRUE, IP |-> 1, LastIPNetWorkChange |-> h ]
    /\ hostCall.hosts = <<2, 3>>

\* C24: initialScanFinished starts false and, once true, stays true; a
\* RetrieveRandomHosts call made while it is false returns an error and no
\* hosts.
C24_ScanFlagMonotoneAndGuards ==
    /\ initialScanFinished = 0
    /\ [][initialScanFinished = 1 => initialScanFinished' = 1]_vars
    /\ [](hostCall.op = "RetrieveRandomHosts" =>
            /\ hostCall.scanFinished \/ (hostCall.err /\ hostCall.hosts = << >>)
            /\ hostCall.err => ~hostCall.scanFinished)
    /\ [][(hostCall' # hostCall /\ initialScanFinished = 0) =>
            (hostCall'.err /\ hostCall'.hosts = << >>)]_vars

\* A call was refused while the pool held a host; the scan finished since.
C24_Witness ==
    /\ hostCall.op = "RetrieveRandomHosts"
    /\ hostCall.err
    /\ InTree(storageHostTree) # {}
    /\ initialScanFinished = 1

\* C26: in every filter mode, after any insert, modify and remove, a host
\* that is not in the pool's tree (it was removed) is not in the filtered
\* tree either.
C26_RemovedFromBothTrees ==
    \A id \in HostIDs :
        ~storageHostTree[id].present => id \notin FilteredTreeHosts

-----------------------------------------------------------------------------
(***************************************************************************)
(* Properties of the lucky-wheel selection.                                *)
(***************************************************************************)

\* The addresses of a result.
ResultAddrs(run) == { wheel[run].results[i] : i \in 1..Len(wheel[run].results) }

-----------------------------------------------------------------------------
(***************************************************************************)
(* Properties of uploadLoop.                                               *)
(***************************************************************************)

\* The same call of uploadLoop with its steps and the timer taken whenever
\* they can be: the loop is a running goroutine and time.After fires.
SpecLoopFair ==
    /\ LoopInit
    /\ [][LoopNext]_vars
    /\ WF_vars(LoopSteps)
    /\ WF_vars(rebuildHeapSignalFires)

\* Under that scheduling a call of uploadLoop returns.
UploadLoopReturns == <>(loop.pc = "returned")

\* C28: uploadLoop returns because the heap is empty, the timer fired, the
\* client stopped or is offline, or the limit of dispatches was reached; it
\* dispatches at most MaxConsecutiveSegmentUploads segments; after the exit
\* by the limit the heap holds exactly the stuck segments that were in it
\* when the limit was reached, and no unstuck one.
C28_LimitExitLeavesStuckOnly ==
    /\ loop.consecutiveSegmentUploads <= MaxConsecutiveSegmentUploads
    /\ loop.pc = "returned" =>
          /\ loop.exit \in {"empty", "timer", "stop", "offline", "limit"}
          /\ loop.exit = "empty" => loop.atExit = {}
          /\ loop.exit = "limit" =>
                /\ loop.consecutiveSegmentUploads = MaxConsecutiveSegmentUploads
                /\ loop.atExit = { s \in loop.atLimit : s.stuck }

\* C29: from the pop of a segment by uploadLoop until its repair ends its id
\* is in heapSegments or repairingSegments only as that one segment: no push
\* of the id is accepted while uploadLoop holds the popped segment or the
\* workers repair it, so no segment is handed to the workers while it is
\* being repaired; a popped segment that is marked stuck for lack of workers
\* is not dispatched.
C29_PoppedSegmentNotPushedAgain ==
    /\ [](nextSegment # NoSegment =>
            /\ nextSegment.id \notin heapSegments
            /\ nextSegment.id \notin repairingSegments)
    /\ [](heapSegments \cap repairingSegments = {})
    /\ [][loop.markedStuck' # loop.markedStuck =>
            loop.dispatched' = loop.dispatched]_vars

-----------------------------------------------------------------------------
(***************************************************************************)
(* Properties of createUnfinishedSegments.                                 *)
(***************************************************************************)

\* The hosts of the given set with a contract good for renew that hold a
\* sector of the slot.
GoodHoldersOfSlot(slot) ==
    { segIn.sectors[slot][k] : k \in 1..Len(segIn.sectors[slot]) }
        \cap { h \in segIn.hosts : segIn.GoodForRenew[h] }

\* C30: in a segment built by createUnfinishedSegments, sectorsCompletedNum
\* is the number of sector slots that hold a sector on a host of the given
\* set whose contract is GoodForRenew, the slot bit is set for exactly
\* those slots, unusedHosts is the given set less the hosts that hold such
\* a sector, and sectorsCompletedNum is at most sectorsNeedNum.
C30_CompletedCountsGoodSlots ==
    segOut.built =>
        /\ segOut.sectorsCompletedNum =
              Cardinality({ slot \in 1..NumSectors : GoodHoldersOfSlot(slot) # {} })
        /\ \A slot \in 1..NumSectors :
              segOut.sectorSlotsStatus[slot] <=> GoodHoldersOfSlot(slot) # {}
        /\ segOut.unusedHosts =
              segIn.hosts \ UNION { GoodHoldersOfSlot(slot) : slot \in 1..NumSectors }
        /\ segOut.sectorsCompletedNum <= segOut.sectorsNeedNum

-----------------------------------------------------------------------------
(***************************************************************************)
(* Properties of the segment filter of createUnfinishedSegments.           *)
(***************************************************************************)

\* The slots of segment i that hold a sector on a host of the given set
\* whose contract is good for renew.
CompletedSlots(i) ==
    { slot \in 1..NumSectors :
        \E k \in 1..Len(buildIn.segments[i].sectors[slot]) :
            LET h == buildIn.segments[i].sectors[slot][k]
            IN  h \in buildIn.hosts /\ buildIn.GoodForRenew[h] }

Complete(i) == Cardinality(CompletedSlots(i)) >= NumSectors

Targeted(i) ==
    (buildIn.target = "targetStuckSegments") = buildIn.segments[i].stuck

ReturnedIndexes ==
    { buildOut.incompleteSegments[k].index :
        k \in 1..Len(buildOut.incompleteSegments) }

\* C31: with enough workers createUnfinishedSegments returns exactly the
\* segments of the targeted class that are incomplete and either
\* downloadable or asked for by the stuck target; a complete segment is
\* never returned; a targeted segment that is not returned is marked stuck
\* exactly when it is not downloadable or it is complete with a health
\* other than CompleteHealthThreshold.
C31_ReturnsIncompleteOfTarget ==
    (buildOut.done /\ ~buildOut.aborted) =>
        /\ ReturnedIndexes =
              { i \in 1..NumFileSegments :
                  /\ Targeted(i)
                  /\ ~Complete(i)
                  /\ (downloadable(buildIn, i)
                        \/ buildIn.target = "targetStuckSegments") }
        /\ \A i \in ReturnedIndexes : ~Complete(i)
        /\ \A i \in 1..NumFileSegments :
              (Targeted(i) /\ i \notin ReturnedIndexes) =>
                  ( i \in buildOut.SetStuckByIndex
                      <=> ( ~downloadable(buildIn, i)
                              \/ ( Complete(i)
                                     /\ buildIn.segments[i].health # "complete" ) ) )

-----------------------------------------------------------------------------
(***************************************************************************)
(* Properties of the stuck-repair pass.                                    *)
(***************************************************************************)

\* The segments the step puts into the heap.
AddedToHeap == Range(heap') \ Range(heap)

\* A stuck segment of a file of the directory that has stuck segments.
StuckSegmentOfCandidate(s) ==
    /\ s.id[1] \in 1..NumDirFiles
    /\ NumStuckSegments(passIn.files[s.id[1]]) > 0
    /\ s.id[2] \in 1..NumFileSegments
    /\ passIn.files[s.id[1]][s.id[2]].stuck
    /\ s.stuck

\* C33: a stuck-repair pass adds at most one segment to the upload heap,
\* that segment is a stuck segment of one of the candidate files and has
\* stuckRepair set, and no segment of another file is added.
C33_PassAddsOneStuckSegment ==
    [][ pass'.passes # pass.passes =>
          /\ Cardinality(AddedToHeap) <= 1
          /\ Len(heap') <= Len(heap) + 1
          /\ \A s \in AddedToHeap :
                /\ StuckSegmentOfCandidate(s)
                /\ s.stuckRepair
                /\ s.id[1] = pass'.file
          /\ heapSegments' \ heapSegments \subseteq { s.id : s \in AddedToHeap } ]_vars

\* A second pass pushed a stuck segment of a file while a segment of the
\* first pass is in the heap or with the workers.
C33_Witness ==
    /\ pass.passes = 2
    /\ added
    /\ pass.pushed # NoSegment
    /\ pass.pushed.id \in heapSegments
    /\ pass.pushed.stuckRepair
    /\ Len(heap) + Cardinality(repairingSegments) >= 2

-----------------------------------------------------------------------------
(***************************************************************************)
(* Properties of the repair goroutine and the stop channel.                *)
(***************************************************************************)

\* The goroutine is scheduled: a step it can take by itself is taken.
SpecRepairFair ==
    /\ RepairInit
    /\ [][RepairNext]_vars
    /\ WF_vars(RepairSteps)

\* Once the stop channel is closed the goroutine returns.
StopLeadsToReturn == stopChan ~> (repair.pc = "returned")

\* C32 as stated: once the stop channel is closed uploadAndRepairLoop and
\* uploadLoop return and start no further segment dispatch, from every
\* state they can be in.
C32_StopReturnsWithoutDispatch ==
    /\ [](repair.afterStop = 0)
    /\ StopLeadsToReturn

\* C32: once the stop channel is closed uploadAndRepairLoop and uploadLoop
\* return, from every state they can be in, and start at most one further
\* segment dispatch: that of the iteration of uploadLoop that had passed its
\* select when the channel was closed.
C32_StopReturnsAfterAtMostOneDispatch ==
    /\ [](repair.afterStop <= 1)
    /\ StopLeadsToReturn

\* The loop returned after the dispatch of a segment it held when the stop
\* channel was closed.
C32_Witness ==
    /\ stopChan
    /\ repair.pc = "returned"
    /\ repair.afterStop = 1

-----------------------------------------------------------------------------
(***************************************************************************)
(* The values contractRenewStart returns.                                  *)
(***************************************************************************)

\* C35: contractRenewStart returns (record.cost, nil) on every path on which
\* the negotiation succeeded, also when the update of the successor's or of
\* the predecessor's status failed afterwards; it returns a zero cost with
\* an error when the contract is no longer in the active set, is not
\* renewable, or the negotiation failed.
C35_CostAndErrorOfRenewal ==
    pc = "done" =>
        /\ rn.negotiated => (rn.renewCost = "record.cost" /\ ~rn.err)
        /\ ~rn.negotiated => (rn.renewCost = "BigInt0" /\ rn.err)
        /\ ~rn.negotiated =>
              \/ ~rn.acquired
              \/ rn.id \notin contracts
              \/ ~rn.stats.RenewAbility
              \/ renew.err

\* A renewal that returned the cost although the successor's status could
\* not be updated.
C35_Witness ==
    /\ pc = "done"
    /\ rn.negotiated
    /\ UpdateContractStatusFails(rn.renewedContract)
    /\ rn.renewCost = "record.cost"
    /\ ~rn.err

-----------------------------------------------------------------------------
(***************************************************************************)
(* Properties of failedRenewCount.                                         *)
(***************************************************************************)

\* The contract ids of the two renew lists of the tick.
ListedForRenew ==
    Range(tick.closeToExpireRenews) \cup Range(tick.insufficientFundingRenews)

\* C34: after resetFailedRenews, failedRenewCount holds exactly the entries
\* it had before whose contract id is in the close-to-expire or in the
\* insufficient-funding list, each with its count; no entry is added and
\* nothing else of the manager changes.
C34_ResetKeepsListedEntries ==
    /\ [](tick.phase = "reset" =>
            /\ DOMAIN failedRenewCount = DOMAIN tick.before \cap ListedForRenew
            /\ \A id \in DOMAIN failedRenewCount :
                  failedRenewCount[id] = tick.before[id])
    /\ [][ (tick.phase = "classified" /\ tick'.phase = "reset") =>
              /\ tick' = [tick EXCEPT !.phase = "reset", !.before = failedRenewCount]
              /\ UNCHANGED notTick ]_vars

\* A reset that kept an entry of each list and dropped another.
C34_Witness ==
    /\ tick.phase = "reset"
    /\ \E a, b \in DOMAIN failedRenewCount :
          /\ a \in Range(tick.closeToExpireRenews)
          /\ b \in Range(tick.insufficientFundingRenews)
    /\ DOMAIN tick.before \ DOMAIN failedRenewCount # {}

\* C37: failedRenewCount[id] counts the failed renewals of contract id in a
\* row: each failed renewal raises it, and the renewal that fails within
\* RenewWindow/2 of the EndHeight after
\* consecutiveRenewFailsBeforeReplacement failed ones marks the contract as
\* canceled.
C37_FailedRenewalsCounted ==
    /\ [][ tick'.failed = tick.failed + 1 =>
              NumFailed(failedRenewCount', 1) = NumFailed(failedRenewCount, 1) + 1 ]_vars
    /\ [][ ( /\ tick.failed = consecutiveRenewFailsBeforeReplacement
             /\ tick'.failed = tick.failed + 1
             /\ tick.late )
           => tick'.replaced ]_vars

\* The second half of C37 alone.
C37_CanceledAfterEnoughFails ==
    [][ ( /\ tick.failed = consecutiveRenewFailsBeforeReplacement
          /\ tick'.failed = tick.failed + 1
          /\ tick.late )
        => tick'.replaced ]_vars

-----------------------------------------------------------------------------
(***************************************************************************)
(* The lucky wheel's sum of votes.                                         *)
(***************************************************************************)

\* The run is in the selection loop of randomSelect.
Selecting(run) ==
    /\ wheel[run].pc \in {"new", "selecting"}
    /\ Len(wheelIn.entries) >= wheelIn.target

AllVotesPositive == \A k \in 1..Len(wheelIn.entries) : wheelIn.entries[k].vote > 0

\* C36: before each selection of the lucky wheel sumVotes is the sum of the
\* votes of the entries still selectable, and with positive votes only no
\* selection returns the last entry from the sanity return of
\* selectSingleEntry.
C36_SumVotesOfSelectable ==
    \A run \in Runs :
        /\ Selecting(run) => wheel[run].sumVotes = SumVotes(wheel[run].entries)
        /\ AllVotesPositive => ~wheel[run].sanity

\* The second half of C36 alone.
C36_SanityReturnNotReached ==
    \A run \in Runs : AllVotesPositive => ~wheel[run].sanity

-----------------------------------------------------------------------------
(***************************************************************************)
(* Properties of ParsePrecompileContractTxArgs.                            *)
(***************************************************************************)

\* C38: two calls of ParsePrecompileContractTxArgs with the same fields map
\* return the same arguments or the same error, whatever the fields.
C38_ParseDeterministic ==
    (parseOut[1].done /\ parseOut[2].done) => parseOut[1].result = parseOut[2].result

\* The same for maps with at most one invalid field and not both "ratio"
\* and "candidates".
C38_ParseDeterministicOnPlainMaps ==
    ( /\ parseOut[1].done /\ parseOut[2].done
      /\ Cardinality({ key \in KeysOf(parseIn) :
                         parseField(ParseLocals, key, parseIn[key]).err # "nil" }) <= 1
      /\ ~(parseIn.ratio # Absent /\ parseIn.candidates # Absent) )
    => parseOut[1].result = parseOut[2].result

-----------------------------------------------------------------------------
(***************************************************************************)
(* ClientPayoutsPreTax and the caller's numbers; the payouts of a renewal. *)
(***************************************************************************)

\* The arguments of a second call by the same caller: the host entry holds
\* the pointers of the first call, so its terms are what the first call left
\* in the store.
SecondCallInput ==
    [payIn EXCEPT !.StoragePrice = payOut.store.StoragePrice,
                  !.ContractPrice = payOut.store.ContractPrice,
                  !.Collateral = payOut.store.Collateral,
                  !.MaxCollateral = payOut.store.MaxCollateral]

HostTermsKept ==
    /\ payOut.store.Collateral = payIn.Collateral
    /\ payOut.store.MaxCollateral = payIn.MaxCollateral
    /\ payOut.store.ContractPrice = payIn.ContractPrice

SamePayoutsAgain ==
    LET again == ClientPayoutsPreTax(SecondCallInput)
    IN  /\ ~again.err
        /\ Deref(again, again.clientPayout) = Deref(payOut, payOut.clientPayout)
        /\ Deref(again, again.hostPayout) = Deref(payOut, payOut.hostPayout)
        /\ Deref(again, again.hostCollateral) = Deref(payOut, payOut.hostCollateral)

\* C39: a call of ClientPayoutsPreTax that returns payouts leaves the
\* caller's Collateral, MaxCollateral and ContractPrice as they were, returns
\* hostCollateral and hostPayout as two integers, not one, and a second call
\* with the same arguments returns the same payouts.
C39_ArgumentsKeptResultsIndependent ==
    (payOut.called /\ ~payOut.err) =>
        /\ HostTermsKept
        /\ payOut.hostCollateral # payOut.hostPayout
        /\ payOut.clientPayout \notin {payOut.hostCollateral, payOut.hostPayout}
        /\ SamePayoutsAgain

\* Parts of C39 on their own.
C39_HostTermsKept == (payOut.called /\ ~payOut.err) => HostTermsKept

C39_SamePayoutsAgain ==
    (payOut.called /\ ~payOut.err /\ HostTermsKept) => SamePayoutsAgain

\* C40: a renewal computes its payouts without fault, also when the new
\* window does not end after the old one, and in the contract it drafts the
\* client's payout and the host's missed payout are not negative.
C40_RenewalPayoutsNotNegative ==
    (draftIn.kind = "renew" /\ draft.done) =>
        /\ ~draft.panic
        /\ draft.drafted =>
              /\ draft.ValidProofOutputs[1] >= 0
              /\ draft.MissedProofOutputs[2] >= 0

\* Parts of C40 on their own.
C40_NoFault == (draftIn.kind = "renew" /\ draft.done) => ~draft.panic

C40_ClientPayoutNotNegative ==
    (draftIn.kind = "renew" /\ draft.drafted) => draft.ValidProofOutputs[1] >= 0

C40_HostMissNotNegative ==
    (draftIn.kind = "renew" /\ draft.drafted) => draft.MissedProofOutputs[2] >= 0

=============================================================================
